---- MODULE Spec2Model ----
(***************************************************************************)
(* Verification model of ScenAgent.                                        *)
(*                                                                         *)
(*  - the job service of web/server.py: api_run, api_stop, worker_loop,    *)
(*    run_job, JobStore, DevicePoolManager, the task queue, the per-user   *)
(*    active-job map and the running-process table;                        *)
(*  - the outer loop of TaskOrchestrator.run with the planning and         *)
(*    execution chains and the state manager.                              *)
(*                                                                         *)
(* Each subsystem has its own specification (Spec for the job service,     *)
(* LoopSpec for the orchestrator); the variables of the other subsystem    *)
(* stay at their initial values.                                           *)
(***************************************************************************)
EXTENDS Integers, Sequences, FiniteSets, TLC

(***************************************************************************)
(* Bounds                                                                  *)
(***************************************************************************)
\* the configurations explored: pool size plus number of POST /run requests
\* is at most MaxLoad (three requests on one device, two on two devices)
MaxLoad ==
    4

\* number of concurrent POST /stop handlers
MaxStops ==
    1

\* largest device pool (MOBILE_V4_DEVICES); one worker thread per device
NumDevices ==
    2

\* max_step of TaskOrchestrator.run (25 by default)
MaxStep ==
    3

\* PlanningState.err_to_planner_thresh
err_to_planner_thresh ==
    2

\* max_step of the runs that reach a path summary; the summarizer runs when
\* (step + 1) % SummaryPeriod = 0
LongMaxStep ==
    6

SummaryPeriod ==
    5

\* tree_similarity_threshold (0.9), similarities in hundredths
tree_similarity_threshold ==
    90

Users ==
    {"u1", "u2"}

JobIds ==
    1..(MaxLoad - 1)

Stoppers ==
    1..MaxStops

\* worker threads that can exist; those started are Workers (below)
WorkerIds ==
    1..NumDevices

\* runs that share one tricks file
NumRuns ==
    2

\* tricks in one response of the task judge
MaxTricks ==
    2

NoJob ==
    0

NoDevice ==
    0

VARIABLES
    job_store,          \* JobStore.memory: job id -> job record
    USER_RUNNING_JOBS,  \* user id -> job id
    task_queue,         \* FIFO of job ids handed to the workers
    all_devices,        \* DevicePoolManager.all_devices
    idle_devices,       \* DevicePoolManager.idle_devices (FIFO)
    RUNNING_PROCS,      \* job ids with a registered subprocess handle
    procs,              \* job id -> state of its control-loop subprocess
    runReq,             \* per POST /run request: position and locals
    stopReq,            \* per POST /stop handler: position and locals
    worker,             \* per worker thread: position and locals
    \* ---- one run of TaskOrchestrator.run ----
    pc,                 \* position in the loop
    step,               \* the loop variable
    local_image_dir,    \* pre-action image of the iteration (0 = None)
    size,               \* get_image_size of the image (<< >> = None)
    local_image_dir2,   \* last post-action image (0 = None)
    shots,              \* screenshots taken so far (names the next image)
    plan,               \* planning.plan, a sequence of characters
    thought,            \* whether the iteration's planning_result has a thought
    error_flag_plan,    \* planning.error_flag_plan
    skip_planner,       \* the iteration's skip_planner
    last_action,        \* execution.last_action (its "action" field)
    last_summary,       \* execution.last_summary
    action_history,     \* execution.action_history
    summary_history,    \* execution.summary_history
    action_outcomes,    \* execution.action_outcomes
    error_descriptions, \* execution.error_descriptions
    invoked,            \* agents invoked in the current iteration
    dispatched,         \* device actions dispatched in the current iteration
    home_calls,         \* device_controller.home() calls
    task_results,       \* task_results.json
    enable_task_judge,  \* TaskOrchestrator.enable_task_judge
    enable_tree_stagnation_check,
    max_step,           \* the max_step argument of run()
    perception_mode,    \* "vllm" or "som"
    current_som_mapping,\* ScreenshotService.current_som_mapping
    som_mapping,        \* ActionService.som_mapping
    last_used_mark,     \* ActionService.last_used_mark
    ui_similarity,      \* Jaccard similarity of the iteration's two UI dumps
    execution_result,   \* the iteration's execution_result
    reflection_result,  \* the iteration's reflection_result
    completed_plan_summary, \* planning.completed_plan_summary, as its parts
    completed_plan,     \* planning.completed_plan, as its parts
    judge_output,       \* what the task judge's model call gave
    infopool_data,      \* the per-step arrays of the infopool artifact
    script_data,        \* script_data["subgoals"]: the command of each record
    last_command_str,   \* TaskOrchestrator._last_command_str
    \* ---- the tricks file of a log directory and the runs that write it ----
    tricks_file,        \* tricks.json: app name -> list of entries
    persist,            \* per run: position in _persist_app_tricks and locals
    \* ---- calls of the pure functions of the services ----
    coord,              \* a CoordinateService round trip: input and results
    swipe,              \* a _compute_swipe_points_from_target call
    codec,              \* an action, its JSON text and what is parsed from it
    marking             \* a get_nodes_need_marked call: nodes and marks

jobVars ==
    <<job_store, USER_RUNNING_JOBS, task_queue, all_devices, idle_devices,
      RUNNING_PROCS, procs, runReq, stopReq, worker>>

loopVars ==
    <<pc, step, local_image_dir, size, local_image_dir2, shots, plan, thought,
      error_flag_plan, skip_planner, last_action, last_summary, action_history,
      summary_history, action_outcomes, error_descriptions, invoked, dispatched,
      home_calls, task_results, enable_task_judge, enable_tree_stagnation_check,
      max_step, perception_mode, current_som_mapping, som_mapping,
      last_used_mark, ui_similarity, execution_result, reflection_result,
      completed_plan_summary, completed_plan, judge_output, infopool_data,
      script_data, last_command_str>>

trickVars ==
    <<tricks_file, persist>>

pureVars ==
    <<coord, swipe, codec, marking>>

vars ==
    <<jobVars, loopVars, trickVars, pureVars>>

\* num_workers = len(device_pool.all_devices); Worker-i for i in range(...)
Workers ==
    1..Cardinality(all_devices)

ActiveStatuses ==
    {"queued", "running"}

TerminalStatuses ==
    {"success", "failed", "stopped"}

\* JobStore.update: merge the given fields into the stored record
JobStoreUpdate(j, updates) ==
    [job_store EXCEPT ![j] =
        [f \in DOMAIN job_store[j] |->
            IF f \in DOMAIN updates THEN updates[f] ELSE job_store[j][f]]]

\* JobStore.create
JobStoreCreate(j, job) ==
    [k \in DOMAIN job_store \cup {j} |-> IF k = j THEN job ELSE job_store[k]]

\* the test both locked sections of api_run apply to the user's entry
UserHasActiveJob(u) ==
    /\ u \in DOMAIN USER_RUNNING_JOBS
    /\ USER_RUNNING_JOBS[u] \in DOMAIN job_store
    /\ job_store[USER_RUNNING_JOBS[u]].status \in ActiveStatuses

IdleRun ==
    [pc |-> "idle", user |-> "", code |-> 0, named |-> NoJob]

IdleStop ==
    [pc |-> "idle", job |-> NoJob, hasProc |-> FALSE, error |-> ""]

IdleWorker ==
    [pc |-> "get", job |-> NoJob, device |-> NoDevice, error |-> "", status |-> "",
     connected |-> FALSE]

\* the job service right after the module is loaded
JobInit ==
    /\ job_store = << >>
    /\ USER_RUNNING_JOBS = << >>
    /\ task_queue = << >>
    /\ \E n \in 1..NumDevices :
            /\ all_devices = 1..n
            /\ idle_devices = [i \in 1..n |-> i]
    /\ RUNNING_PROCS = {}
    /\ procs = [j \in JobIds |-> "none"]
    /\ runReq = [r \in JobIds |-> IdleRun]
    /\ stopReq = [s \in Stoppers |-> IdleStop]
    /\ worker = [w \in WorkerIds |-> IdleWorker]

\* a screenshot path: None, the fresh image of step 0, or the post-action
\* image taken in iteration s
NoImage ==
    << >>

FirstImage ==
    <<"pre", 0>>

PostImage(s) ==
    <<"post", s>>

\* the SoM mapping of a screenshot: the image it was made for and its marks;
\* {} before any screenshot has been marked
NoMapping ==
    [image |-> NoImage, marks |-> {}]

NoMark ==
    ""

\* no similarity: a UI dump is missing or holds no tokens
NoSimilarity ==
    -1

\* no command string: execute_action gave None, or _last_command_str is
\* None.  A command string is modelled by the number of the step that sent it
NoCommand ==
    0

\* the iteration has not run its execution chain / reflection chain yet
NoExecution ==
    [thought |-> FALSE, action |-> "", description |-> "", action_object |-> "",
     command_str |-> NoCommand]

NoReflection ==
    [llm_outcome |-> "", tree_similarity |-> NoSimilarity, tree_confirmed |-> "None",
     final_outcome |-> "", path_summarizer |-> FALSE]

\* get_image_size: None, or (width, height)
NoSize ==
    << >>

ScreenSize ==
    <<1080, 1920>>

NoResults ==
    [exists |-> FALSE, step_limit |-> 0, task_status |-> "",
     test_status_report |-> "", task_judger |-> "", judger_reason |-> << >>]

\* the task judge has not been called
NoJudgeOutput ==
    [error |-> FALSE, status |-> "", reason |-> << >>]

\* TaskOrchestrator.__init__: infopool_data with its empty arrays
NoInfopool ==
    [plans |-> << >>, completed_subgoals |-> << >>,
     completed_subgoals_summary |-> << >>, progress |-> << >>]

\* TaskOrchestrator.__init__, MobileAgentState() and the locals of run()
LoopInit ==
    /\ pc = "loop"
    /\ step = 0
    /\ local_image_dir = NoImage
    /\ size = NoSize
    /\ local_image_dir2 = NoImage
    /\ shots = 0
    /\ plan = << >>
    /\ thought = FALSE
    /\ error_flag_plan = FALSE
    /\ skip_planner = FALSE
    /\ last_action = ""
    /\ last_summary = ""
    /\ action_history = << >>
    /\ summary_history = << >>
    /\ action_outcomes = << >>
    /\ error_descriptions = << >>
    /\ invoked = {}
    /\ dispatched = 0
    /\ home_calls = 0
    /\ task_results = NoResults
    /\ enable_task_judge \in BOOLEAN
    /\ enable_tree_stagnation_check \in BOOLEAN
    /\ max_step \in {MaxStep, LongMaxStep}
    /\ perception_mode \in {"vllm", "som"}
    /\ current_som_mapping = NoMapping
    /\ som_mapping = NoMapping
    /\ last_used_mark = NoMark
    /\ ui_similarity = NoSimilarity
    /\ execution_result = NoExecution
    /\ reflection_result = NoReflection
    /\ completed_plan_summary = << >>
    /\ completed_plan = << >>
    /\ judge_output = NoJudgeOutput
    /\ infopool_data = NoInfopool
    /\ script_data = << >>
    /\ last_command_str = NoCommand

\* the runs (processes of main.py) that write tricks.json of one log directory
Runs ==
    1..NumRuns

\* _extract_target_app_name: the target app of the task, "Unknown" without one
Apps ==
    {"Unknown", "app"}

\* tricks.json absent: read_json gives None, every bucket is empty
NoTricksFile ==
    [a \in Apps |-> << >>]

\* a run that has not come to _persist_app_tricks
IdlePersist ==
    [pc |-> "idle", app |-> "", tricks |-> << >>, existing |-> NoTricksFile]

\* no run persists tricks and there is no tricks file
TricksIdle ==
    /\ tricks_file = NoTricksFile
    /\ persist = [r \in Runs |-> IdlePersist]

\* a function that has not been called
NotCalled ==
    [called |-> FALSE]

\* none of the pure functions has been called
PureIdle ==
    /\ coord = NotCalled
    /\ swipe = NotCalled
    /\ codec = NotCalled
    /\ marking = NotCalled

Init ==
    /\ JobInit
    /\ LoopInit
    /\ TricksIdle
    /\ PureIdle
    /\ enable_task_judge
    /\ ~enable_tree_stagnation_check
    /\ max_step = MaxStep
    /\ perception_mode = "vllm"

(***************************************************************************)
(* POST /api/v1/run                                                        *)
(***************************************************************************)
\* first locked section, then the request validation (no shared state);
\* job ids are fresh uuids, here handed out in ascending order
RunCheck(r, u, valid) ==
    /\ runReq[r].pc = "idle"
    /\ \A q \in JobIds : q < r => runReq[q].pc # "idle"
    /\ r + Cardinality(all_devices) <= MaxLoad
    /\ IF UserHasActiveJob(u)
       THEN runReq' = [runReq EXCEPT ![r] =
                [pc |-> "done", user |-> u, code |-> 400,
                 named |-> USER_RUNNING_JOBS[u]]]
       ELSE IF ~valid
       THEN runReq' = [runReq EXCEPT ![r] =
                [pc |-> "done", user |-> u, code |-> 400, named |-> NoJob]]
       ELSE runReq' = [runReq EXCEPT ![r] =
                [pc |-> "register", user |-> u, code |-> 0, named |-> NoJob]]
    /\ UNCHANGED <<all_devices, job_store, USER_RUNNING_JOBS, task_queue, idle_devices,
                   RUNNING_PROCS, procs, stopReq, worker>>

\* second locked section: re-check, then USER_RUNNING_JOBS[user_id] = job_id
RunRegister(r) ==
    /\ runReq[r].pc = "register"
    /\ LET u == runReq[r].user IN
       IF UserHasActiveJob(u)
       THEN /\ runReq' = [runReq EXCEPT ![r].pc = "done", ![r].code = 400,
                                        ![r].named = USER_RUNNING_JOBS[u]]
            /\ UNCHANGED USER_RUNNING_JOBS
       ELSE /\ USER_RUNNING_JOBS' =
                [k \in DOMAIN USER_RUNNING_JOBS \cup {u} |->
                    IF k = u THEN r ELSE USER_RUNNING_JOBS[k]]
            /\ runReq' = [runReq EXCEPT ![r].pc = "create"]
    /\ UNCHANGED <<all_devices, job_store, task_queue, idle_devices, RUNNING_PROCS, procs,
                   stopReq, worker>>

\* a job creation whose background task never puts the job on the queue
RunCreateWithoutPut(r) ==
    /\ runReq[r].pc = "create"
    /\ job_store' = JobStoreCreate(r,
            [status |-> "queued", error |-> "", device_id |-> NoDevice])
    /\ runReq' = [runReq EXCEPT ![r].pc = "done", ![r].code = 200,
                                ![r].named = r]
    /\ UNCHANGED <<all_devices, USER_RUNNING_JOBS, task_queue, idle_devices,
                   RUNNING_PROCS, procs, stopReq, worker>>

\* job_store.create({... "status": "queued" ...}); the response is 200 and the
\* background task guarded_run_job then does task_queue.put((job_id, req))
RunCreate(r) ==
    /\ runReq[r].pc = "create"
    /\ job_store' = JobStoreCreate(r,
            [status |-> "queued", error |-> "", device_id |-> NoDevice])
    /\ task_queue' = Append(task_queue, r)
    /\ runReq' = [runReq EXCEPT ![r].pc = "done", ![r].code = 200,
                                ![r].named = r]
    /\ UNCHANGED <<all_devices, USER_RUNNING_JOBS, idle_devices, RUNNING_PROCS, procs,
                   stopReq, worker>>

api_run ==
    \/ \E r \in JobIds, u \in Users, valid \in BOOLEAN : RunCheck(r, u, valid)
    \/ \E r \in JobIds : RunRegister(r)
    \/ \E r \in JobIds : RunCreate(r)

(***************************************************************************)
(* POST /api/v1/stop/{job_id}                                              *)
(***************************************************************************)
\* job = job_store.get(job_id); an absent job (404) and a terminal job (200)
\* return at once without touching any state, so the handler only proceeds
\* for a queued or running job: proc = RUNNING_PROCS.get(job_id) and, when
\* there is one, proc.terminate(); proc.wait(timeout=5); on timeout proc.kill()
StopBegin(s, j) ==
    /\ stopReq[s].pc = "idle"
    /\ j \in DOMAIN job_store
    /\ job_store[j].status \notin TerminalStatuses
    /\ stopReq' = [stopReq EXCEPT ![s] =
            [pc |-> "mark", job |-> j, hasProc |-> (j \in RUNNING_PROCS),
             error |-> job_store[j].error]]
    /\ procs' = [procs EXCEPT ![j] =
            IF j \in RUNNING_PROCS /\ @ = "running" THEN "killed" ELSE @]
    /\ UNCHANGED <<all_devices, job_store, USER_RUNNING_JOBS, task_queue, idle_devices,
                   RUNNING_PROCS, runReq, worker>>

\* job_store.update(job_id, {"status": "stopped", "error": job.get("error") or ...})
\* and, when a process was found, del RUNNING_PROCS[job_id] if still present
StopMark(s) ==
    /\ stopReq[s].pc = "mark"
    /\ LET j == stopReq[s].job IN
       /\ job_store' = JobStoreUpdate(j,
            [status |-> "stopped",
             error |-> IF stopReq[s].error # "" THEN stopReq[s].error
                       ELSE IF stopReq[s].hasProc THEN "stopped by user"
                       ELSE "stopped without active process"])
       /\ RUNNING_PROCS' = IF stopReq[s].hasProc THEN RUNNING_PROCS \ {j}
                           ELSE RUNNING_PROCS
    /\ stopReq' = [stopReq EXCEPT ![s] = IdleStop]
    /\ UNCHANGED <<all_devices, USER_RUNNING_JOBS, task_queue, idle_devices, procs, runReq,
                   worker>>

api_stop ==
    \/ \E s \in Stoppers, j \in JobIds : StopBegin(s, j)
    \/ \E s \in Stoppers : StopMark(s)

(***************************************************************************)
(* The control-loop subprocess of a job (python main.py ...)               *)
(***************************************************************************)
\* the subprocess ends by itself with return code 0 or with a nonzero code
ProcExit(j, rc) ==
    /\ procs[j] = "running"
    /\ procs' = [procs EXCEPT ![j] = IF rc = 0 THEN "exit0" ELSE "exit1"]
    /\ UNCHANGED <<all_devices, job_store, USER_RUNNING_JOBS, task_queue, idle_devices,
                   RUNNING_PROCS, runReq, stopReq, worker>>

(***************************************************************************)
(* DevicePoolManager                                                       *)
(***************************************************************************)
\* a release that puts the device back twice
DevicePoolReleaseTwice(q, d) ==
    IF d \in all_devices THEN Append(Append(q, d), d) ELSE q

\* release(device_id): if device_id in self.all_devices: idle_devices.put(it)
DevicePoolRelease(q, d) ==
    IF d \in all_devices THEN Append(q, d) ELSE q

(***************************************************************************)
(* worker_loop and run_job                                                 *)
(***************************************************************************)
\* job_id, req = task_queue.get(); device_id = device_pool.acquire() (blocks
\* while the pool is empty); if not ensure_connected(device_id): raise
WorkerGet(w, connected) ==
    /\ worker[w].pc = "get"
    /\ task_queue # << >>
    /\ idle_devices # << >>
    /\ worker' = [worker EXCEPT ![w].pc = IF connected THEN "start" ELSE "except",
                                ![w].job = Head(task_queue),
                                ![w].device = Head(idle_devices),
                                ![w].connected = connected]
    /\ task_queue' = Tail(task_queue)
    /\ idle_devices' = Tail(idle_devices)
    /\ UNCHANGED <<all_devices, job_store, USER_RUNNING_JOBS, RUNNING_PROCS, procs, runReq,
                   stopReq>>

\* a failure path that goes back to task_queue.get() without the finally clause
WorkerExceptNoFinally(w) ==
    /\ worker[w].pc = "except"
    /\ job_store' = [job_store EXCEPT ![worker[w].job].status = "failed",
                                      ![worker[w].job].error = "device offline"]
    /\ worker' = [worker EXCEPT ![w] = IdleWorker]
    /\ UNCHANGED <<all_devices, USER_RUNNING_JOBS, task_queue, idle_devices,
                   RUNNING_PROCS, procs, runReq, stopReq>>

\* except Exception: job_store.update(job_id, {"status": "failed", "error": str(e)})
WorkerExcept(w) ==
    /\ worker[w].pc = "except"
    /\ job_store' = JobStoreUpdate(worker[w].job,
            [status |-> "failed", error |-> "device offline"])
    /\ worker' = [worker EXCEPT ![w].pc = "finally"]
    /\ UNCHANGED <<all_devices, USER_RUNNING_JOBS, task_queue, idle_devices, RUNNING_PROCS,
                   procs, runReq, stopReq>>

\* run_job: job_store.update(job_id, {"status": "running", "device_id": ...})
RunJobStart(w) ==
    /\ worker[w].pc = "start"
    /\ job_store' = JobStoreUpdate(worker[w].job,
            [status |-> "running", device_id |-> worker[w].device])
    /\ worker' = [worker EXCEPT ![w].pc = "launch", ![w].error = ""]
    /\ UNCHANGED <<all_devices, USER_RUNNING_JOBS, task_queue, idle_devices, RUNNING_PROCS,
                   procs, runReq, stopReq>>

\* the try block: APK install, scenario and command building may raise
\* (error = str(exc), then the finally clause finds nothing to unregister);
\* otherwise proc = subprocess.Popen(cmd, ...); RUNNING_PROCS[job_id] = proc
RunJobLaunch(w, raises) ==
    /\ worker[w].pc = "launch"
    /\ IF raises
       THEN /\ worker' = [worker EXCEPT ![w].pc = "read_status",
                                        ![w].error = "exception"]
            /\ UNCHANGED <<all_devices, procs, RUNNING_PROCS>>
       ELSE /\ procs' = [procs EXCEPT ![worker[w].job] = "running"]
            /\ RUNNING_PROCS' = RUNNING_PROCS \cup {worker[w].job}
            /\ worker' = [worker EXCEPT ![w].pc = "poll"]
    /\ UNCHANGED <<all_devices, job_store, USER_RUNNING_JOBS, task_queue, idle_devices,
                   runReq, stopReq>>

\* while proc.poll() is None: sleep; returncode = proc.wait() (the exited
\* process is reaped and its handle dropped);
\* if returncode != 0: error = tail_text(...) or "runner exit code: ...";
\* finally: with proc_lock: if job_id in RUNNING_PROCS: del RUNNING_PROCS[job_id]
RunJobWait(w) ==
    /\ worker[w].pc = "poll"
    /\ procs[worker[w].job] # "running"
    /\ worker' = [worker EXCEPT ![w].pc = "read_status",
            ![w].error = IF procs[worker[w].job] = "exit0" THEN ""
                         ELSE "runner failed"]
    /\ RUNNING_PROCS' = RUNNING_PROCS \ {worker[w].job}
    /\ procs' = [procs EXCEPT ![worker[w].job] = "reaped"]
    /\ UNCHANGED <<all_devices, job_store, USER_RUNNING_JOBS, task_queue, idle_devices,
                   runReq, stopReq>>

\* a finalization that takes a job that was not stopped for a success
RunJobReadStatusIgnoringError(w) ==
    /\ worker[w].pc = "read_status"
    /\ worker' = [worker EXCEPT ![w].pc = "finalize",
            ![w].status = IF job_store[worker[w].job].status = "stopped"
                          THEN "stopped"
                          ELSE "success"]
    /\ UNCHANGED <<all_devices, job_store, USER_RUNNING_JOBS, task_queue, idle_devices,
                   RUNNING_PROCS, procs, runReq, stopReq>>

\* current_job = job_store.get(job_id); status = "stopped" if it is stopped,
\* else "success" if not error else "failed"
RunJobReadStatus(w) ==
    /\ worker[w].pc = "read_status"
    /\ worker' = [worker EXCEPT ![w].pc = "finalize",
            ![w].status = IF job_store[worker[w].job].status = "stopped"
                          THEN "stopped"
                          ELSE IF worker[w].error = "" THEN "success"
                          ELSE "failed"]
    /\ UNCHANGED <<all_devices, job_store, USER_RUNNING_JOBS, task_queue, idle_devices,
                   RUNNING_PROCS, procs, runReq, stopReq>>

\* job_store.update(job_id, {"status": status, ..., "error": error, ...})
RunJobFinalize(w) ==
    /\ worker[w].pc = "finalize"
    /\ job_store' = JobStoreUpdate(worker[w].job,
            [status |-> worker[w].status, error |-> worker[w].error])
    /\ worker' = [worker EXCEPT ![w].pc = "finally"]
    /\ UNCHANGED <<all_devices, USER_RUNNING_JOBS, task_queue, idle_devices, RUNNING_PROCS,
                   procs, runReq, stopReq>>

\* a finally clause that removes the user's entry whatever job it names
WorkerFinallyAlwaysDeletes(w) ==
    /\ worker[w].pc = "finally"
    /\ idle_devices' = DevicePoolRelease(idle_devices, worker[w].device)
    /\ LET u == runReq[worker[w].job].user IN
       USER_RUNNING_JOBS' =
            [k \in DOMAIN USER_RUNNING_JOBS \ {u} |-> USER_RUNNING_JOBS[k]]
    /\ worker' = [worker EXCEPT ![w] = IdleWorker]
    /\ UNCHANGED <<all_devices, job_store, task_queue, RUNNING_PROCS, procs, runReq, stopReq>>

\* finally: device_pool.release(device_id); with user_lock:
\* if USER_RUNNING_JOBS.get(req.user_id) == job_id: del USER_RUNNING_JOBS[it]
WorkerFinally(w) ==
    /\ worker[w].pc = "finally"
    /\ idle_devices' = DevicePoolRelease(idle_devices, worker[w].device)
    /\ LET u == runReq[worker[w].job].user IN
       USER_RUNNING_JOBS' =
            IF u \in DOMAIN USER_RUNNING_JOBS /\ USER_RUNNING_JOBS[u] = worker[w].job
            THEN [k \in DOMAIN USER_RUNNING_JOBS \ {u} |-> USER_RUNNING_JOBS[k]]
            ELSE USER_RUNNING_JOBS
    /\ worker' = [worker EXCEPT ![w] = IdleWorker]
    /\ UNCHANGED <<all_devices, job_store, task_queue, RUNNING_PROCS, procs, runReq, stopReq>>

worker_loop ==
    \/ \E w \in Workers, connected \in BOOLEAN : WorkerGet(w, connected)
    \/ \E w \in Workers : WorkerExcept(w)
    \/ \E w \in Workers : RunJobStart(w)
    \/ \E w \in Workers, raises \in BOOLEAN : RunJobLaunch(w, raises)
    \/ \E w \in Workers : RunJobWait(w)
    \/ \E w \in Workers : RunJobReadStatus(w)
    \/ \E w \in Workers : RunJobFinalize(w)
    \/ \E w \in Workers : WorkerFinally(w)

JobNext ==
    \/ api_run
    \/ api_stop
    \/ worker_loop
    \/ \E j \in JobIds, rc \in {0, 1} : ProcExit(j, rc)

Next ==
    JobNext /\ UNCHANGED <<loopVars, trickVars, pureVars>>

Spec ==
    Init /\ [][Next]_vars

\* GET /api/v1/status/{job_id}: the status and the error of the job record
api_status(j) ==
    [status |-> job_store[j].status, error |-> job_store[j].error]

\* the steps of worker thread w
WorkerStep(w) ==
    \/ \E connected \in BOOLEAN : WorkerGet(w, connected)
    \/ WorkerExcept(w)
    \/ RunJobStart(w)
    \/ \E raises \in BOOLEAN : RunJobLaunch(w, raises)
    \/ RunJobWait(w)
    \/ RunJobReadStatus(w)
    \/ RunJobFinalize(w)
    \/ WorkerFinally(w)

\* the server started with the largest pool
FairInit ==
    /\ Init
    /\ Cardinality(all_devices) = NumDevices

\* worker threads are scheduled fairly and every subprocess eventually exits
FairSpec ==
    /\ FairInit
    /\ [][Next]_vars
    /\ \A w \in WorkerIds : WF_vars(WorkerStep(w) /\ UNCHANGED <<loopVars, trickVars, pureVars>>)
    /\ \A j \in JobIds :
            WF_vars((\E rc \in {0, 1} : ProcExit(j, rc))
                        /\ UNCHANGED <<loopVars, trickVars, pureVars>>)

(***************************************************************************)
(* TaskOrchestrator.run: texts                                             *)
(***************************************************************************)
Whitespace ==
    {" ", "\n", "\t"}

\* str.strip()
RECURSIVE LStrip(_)
LStrip(t) ==
    IF t # << >> /\ Head(t) \in Whitespace THEN LStrip(Tail(t)) ELSE t

RECURSIVE RStrip(_)
RStrip(t) ==
    IF t # << >> /\ t[Len(t)] \in Whitespace
    THEN RStrip(SubSeq(t, 1, Len(t) - 1))
    ELSE t

Strip(t) ==
    RStrip(LStrip(t))

\* sub in t
Contains(sub, t) ==
    \E i \in 1..(Len(t) - Len(sub) + 1) : SubSeq(t, i, i + Len(sub) - 1) = sub

FinishedText ==
    <<"F", "i", "n", "i", "s", "h", "e", "d">>

\* a finish test with the length limit one lower
IsFinishedBelow14(p) ==
    Contains(FinishedText, Strip(p)) /\ Len(Strip(p)) < 14

\* "Finished" in plan.strip() and len(plan.strip()) < 15
IsFinished(p) ==
    Contains(FinishedText, Strip(p)) /\ Len(Strip(p)) < 15

\* the plans a planner response can carry (PlannerAgent.parse_response strips
\* them; a response without a Plan section gives the empty plan):
\* "", "Finished", "1. Tap OK", "Not Finished 1" and "Not Finished 1."
PlanTexts ==
    {<< >>,
     <<"F", "i", "n", "i", "s", "h", "e", "d">>,
     <<"1", ".", " ", "T", "a", "p", " ", "O", "K">>,
     
     <<"N", "o", "t", " ", "F", "i", "n", "i", "s", "h", "e", "d", " ", "1">>,
     
     <<"N", "o", "t", " ", "F", "i", "n", "i", "s", "h", "e", "d", " ", "1", ".">>}

\* what ExecutorAgent.parse_response makes of a response: whether the
\* Thought text is there, the Action text and the Description text.  The
\* Action texts: none, one that is no JSON, an answer, a click on a point
\* ("click" stands for the kinds that reach the device) and a click on the
\* mark "1".  Without Thought or Action section there is no description.
ExecutorResponses ==
    {[thought |-> FALSE, action |-> "", description |-> ""],
     [thought |-> TRUE, action |-> "", description |-> ""],
     [thought |-> FALSE, action |-> "click", description |-> "description"],
     [thought |-> TRUE, action |-> "garbage", description |-> "description"],
     [thought |-> TRUE, action |-> "answer", description |-> "description"],
     [thought |-> TRUE, action |-> "click", description |-> "description"]}

MarkClickResponse ==
    [thought |-> TRUE, action |-> "click_mark", description |-> "description"]

\* a parser that lets every action text through
ParseActionStringLenient(action_str) ==
    action_str

\* ActionService.parse_action_string: the action object, "" for None
ParseActionString(action_str) ==
    IF action_str \in {"", "garbage"} THEN "" ELSE action_str

\* the "action" field of an action object
ActionField(action_object) ==
    IF action_object = "click_mark" THEN "click" ELSE action_object

\* the Outcome section of the reflector, a free text: "S", "B", "C", the
\* option "C: Failed", the sentence "C: Same" and a section without any of
\* the letters
OutcomeTexts ==
    {<<"S">>, <<"B">>, <<"C">>,
     <<"C", ":", " ", "F", "a", "i", "l", "e", "d">>,
     <<"C", ":", " ", "S", "a", "m", "e">>,
     << >>}

\* ReflectionChain.run: "S" in outcome, elif "B", elif "C", else ValueError
\* (here "")
ParseOutcome(outcome) ==
    IF Contains(<<"S">>, outcome) THEN "S"
    ELSE IF Contains(<<"B">>, outcome) THEN "B"
    ELSE IF Contains(<<"C">>, outcome) THEN "C"
    ELSE ""

\* Jaccard similarities of two UI dumps, in hundredths
Similarities ==
    {NoSimilarity, 72, tree_similarity_threshold, 100}

\* a stagnation test that needs more than the threshold
ConfirmAboveThreshold(similarity) ==
    IF similarity = NoSimilarity THEN "None"
    ELSE IF similarity > tree_similarity_threshold THEN "True"
    ELSE "False"

\* _UiTreeStagnationChecker.confirm: tree_confirmed is None without a
\* similarity, else similarity >= tree_similarity_threshold
Confirm(similarity) ==
    IF similarity = NoSimilarity THEN "None"
    ELSE IF similarity >= tree_similarity_threshold THEN "True"
    ELSE "False"

\* a summarizer that runs on every fifth step whatever its outcome
ShouldSummarizeAnyOutcome(s, final_outcome) ==
    (s + 1) % SummaryPeriod = 0

\* ReflectionChain.run: the path summarizer (always wired by the
\* orchestrator) runs when (step + 1) % 5 == 0 and final_outcome == "S"
ShouldSummarize(s, final_outcome) ==
    (s + 1) % SummaryPeriod = 0 /\ final_outcome = "S"

\* the final outcome of a reflection
FinalOutcome(llm_outcome, tree_confirmed) ==
    IF llm_outcome = "C" /\ enable_tree_stagnation_check
    THEN (IF tree_confirmed = "True" THEN "N"
          ELSE IF tree_confirmed = "False" THEN "S"
          ELSE "C")
    ELSE llm_outcome

\* the results of marking a screenshot: failed, or marked with its marks
SomResults ==
    {[ok |-> FALSE, marks |-> {}],
     [ok |-> TRUE, marks |-> {}],
     [ok |-> TRUE, marks |-> {"1"}]}

\* ScreenshotService._process_som: a marked screenshot stores its mapping, a
\* failed marking (and vllm mode) leaves current_som_mapping as it is
ProcessSom(image, som) ==
    IF perception_mode = "som" /\ som.ok
    THEN [image |-> image, marks |-> som.marks]
    ELSE current_som_mapping

\* ExecutionChain.run, loading the mapping: the current mapping when it is
\* not empty, else the mapping file of a marked screenshot, else nothing
LoadSomMapping(screenshot_path) ==
    IF perception_mode # "som" THEN som_mapping
    ELSE IF current_som_mapping.marks # {} THEN current_som_mapping
    ELSE IF current_som_mapping.image = screenshot_path
         THEN [image |-> screenshot_path, marks |-> {}]
    ELSE som_mapping

(***************************************************************************)
(* StateManager                                                            *)
(***************************************************************************)
\* a threshold test that looks at one outcome less
CheckErrorThresholdShort(outcomes, threshold) ==
    IF Len(outcomes) >= threshold - 1
    THEN \A i \in (Len(outcomes) - threshold + 2)..Len(outcomes) :
            outcomes[i] \in {"B", "C", "N"}
    ELSE FALSE

\* a threshold test that does not count the outcome N of an invalid step
CheckErrorThresholdWithoutN(outcomes, threshold) ==
    IF Len(outcomes) >= threshold
    THEN Cardinality({i \in (Len(outcomes) - threshold + 1)..Len(outcomes) :
                        outcomes[i] \in {"B", "C"}}) = threshold
    ELSE FALSE

\* check_error_threshold: the last `threshold` outcomes are all B, C or N
check_error_threshold(outcomes, threshold) ==
    IF Len(outcomes) >= threshold
    THEN Cardinality({i \in (Len(outcomes) - threshold + 1)..Len(outcomes) :
                        outcomes[i] \in {"B", "C", "N"}}) = threshold
    ELSE FALSE

\* a skip decision that forgets the error flag
SkipPlannerIgnoringFlag(flag, last) ==
    last = "invalid"

\* skip_planner: not error_flag_plan and last_action is the invalid action
SkipPlanner(flag, last) ==
    ~flag /\ last = "invalid"

\* a save that takes every run for one that finished within the limit
SaveFinalResultsLimitIgnored(existing, limit) ==
    [existing EXCEPT
        !.exists = TRUE,
        !.step_limit = limit,
        !.task_status = "Completed",
        !.test_status_report =
            IF existing.test_status_report # "" THEN existing.test_status_report
            ELSE "Finished within step limit"]

\* the summaries that hold no completed subgoal: the empty one and the
\* sentinel text
NoSubgoalSummaries ==
    {<< >>, <<"No completed subgoal.">>}

\* a subgoal that overwrites the summary
AppendCompletedSubgoalOverwrite(summary, subgoal) ==
    <<subgoal>>

\* append_completed_subgoal, for the summary: a subgoal is appended to a
\* summary that holds one, else it becomes the summary
AppendCompletedSubgoal(summary, subgoal) ==
    IF summary \notin NoSubgoalSummaries THEN Append(summary, subgoal)
    ELSE <<subgoal>>

\* _save_final_results(step_limit) followed by save_task_results
SaveFinalResults(existing, limit) ==
    [existing EXCEPT
        !.exists = TRUE,
        !.step_limit = limit,
        !.task_status = IF limit # 0 THEN "Not Completed" ELSE "Completed",
        !.test_status_report =
            IF existing.test_status_report # "" THEN existing.test_status_report
            ELSE IF limit # 0 THEN "Reached maximum execution limit"
            ELSE "Finished within step limit"]

(***************************************************************************)
(* TaskOrchestrator.run                                                    *)
(***************************************************************************)
\* PlanningChain._update_current_subgoal: the current subgoal is taken from
\* a plan that is not empty and does not contain "Finished", and is the empty
\* string otherwise; only the planner sets the plan and the subgoal, together
HasCurrentSubgoal(p) ==
    p # << >> /\ ~Contains(FinishedText, p)

\* _update_script_data, and the block after the loop that records the last
\* step's subgoal: one record is appended when there is a current subgoal and
\* a command string
UpdateScriptData(subgoals, p, command_str) ==
    IF HasCurrentSubgoal(p) /\ command_str # NoCommand
    THEN Append(subgoals, command_str)
    ELSE subgoals

\* top of an iteration: the screenshot (fresh at step 0, else the previous
\* post-action image), the exit when there is none, the `continue` when its
\* size cannot be read, then the error threshold and the skip decision
LoopBegin(shot_ok, size_ok, som) ==
    /\ pc = "loop"
    /\ step < max_step
    /\ LET img == IF step = 0 THEN (IF shot_ok THEN FirstImage ELSE NoImage)
                  ELSE local_image_dir2
           flag == check_error_threshold(action_outcomes, err_to_planner_thresh)
       IN
       /\ local_image_dir' = img
       /\ shots' = IF step = 0 /\ shot_ok THEN shots + 1 ELSE shots
       /\ current_som_mapping' = IF step = 0 /\ shot_ok
                                 THEN ProcessSom(FirstImage, som)
                                 ELSE current_som_mapping
       /\ invoked' = {}
       /\ dispatched' = 0
       /\ thought' = FALSE
       /\ ui_similarity' = NoSimilarity
       /\ execution_result' = NoExecution
       /\ reflection_result' = NoReflection
       /\ IF img = NoImage
          THEN /\ task_results' = SaveFinalResults(task_results, 1)
               /\ home_calls' = home_calls + 1
               /\ pc' = "returned"
               /\ UNCHANGED <<step, size, error_flag_plan, skip_planner>>
          ELSE IF ~size_ok
          THEN /\ size' = NoSize
               /\ step' = step + 1
               /\ pc' = "loop"
               /\ UNCHANGED <<task_results, home_calls, error_flag_plan,
                              skip_planner>>
          ELSE /\ size' = ScreenSize
               /\ error_flag_plan' = flag
               /\ skip_planner' = SkipPlanner(flag, last_action)
               /\ pc' = "plan"
               /\ UNCHANGED <<task_results, home_calls, step>>
    /\ UNCHANGED <<local_image_dir2, plan, last_action, last_summary,
                   action_history, summary_history, action_outcomes,
                   error_descriptions, enable_task_judge,
                   enable_tree_stagnation_check, max_step, perception_mode,
                   som_mapping, last_used_mark, completed_plan_summary,
                   completed_plan, judge_output, infopool_data>>
    /\ UNCHANGED <<script_data, last_command_str>>

\* planning phase: unless skipped, PlanningChain.run(skip_if_invalid=False)
\* invokes the planner and stores its plan and the subgoal it reports as
\* completed
PlanningPhase(p, has_thought, has_subgoal) ==
    /\ pc = "plan"
    /\ IF skip_planner
       THEN UNCHANGED <<plan, invoked, thought, completed_plan_summary,
                        completed_plan>>
       ELSE /\ plan' = p
            /\ completed_plan' =
                    IF has_subgoal
                    THEN AppendCompletedSubgoal(completed_plan, "subgoal")
                    ELSE completed_plan
            /\ thought' = has_thought
            /\ invoked' = invoked \cup {"planner"}
            /\ completed_plan_summary' =
                    IF has_subgoal
                    THEN AppendCompletedSubgoal(completed_plan_summary, "subgoal")
                    ELSE completed_plan_summary
    /\ pc' = "check"
    /\ UNCHANGED <<step, local_image_dir, size, local_image_dir2, shots,
                   error_flag_plan, skip_planner, last_action, last_summary,
                   action_history, summary_history, action_outcomes,
                   error_descriptions, dispatched, home_calls, task_results,
                   enable_task_judge, enable_tree_stagnation_check, max_step,
                   perception_mode, current_som_mapping, som_mapping,
                   last_used_mark, ui_similarity, execution_result,
                   reflection_result, judge_output, infopool_data>>
    /\ last_command_str' = IF skip_planner THEN last_command_str ELSE NoCommand
    /\ UNCHANGED script_data

\* the words a judge's reason is searched for when the response names no
\* status (the reason is lower-cased first; the texts here are lower case
\* after their first word)
SuccessWord ==
    <<"s", "u", "c", "c", "e", "s", "s">>

CompletedWord ==
    <<"c", "o", "m", "p", "l", "e", "t", "e", "d">>

FailWord ==
    <<"f", "a", "i", "l">>

\* what the model call of the task judge gives: a JSON object with status
\* Success or Failed and a reason, a text in which the parser finds nothing,
\* and, when the call fails, the text "Error: timeout" or "Error: failed"
\* that LangChainLLMProvider.predict_mm returns in place of a response
JudgeOutputs ==
    {[error |-> FALSE, status |-> "Success",
      reason |-> <<"r", "e", "a", "s", "o", "n">>],
     [error |-> FALSE, status |-> "Failed",
      reason |-> <<"r", "e", "a", "s", "o", "n">>],
     [error |-> FALSE, status |-> "", reason |-> << >>],
     [error |-> TRUE, status |-> "",
      reason |-> <<"E", "r", "r", "o", "r", ":", " ", "t", "i", "m", "e", "o", "u", "t">>],
     [error |-> TRUE, status |-> "",
      reason |-> <<"E", "r", "r", "o", "r", ":", " ", "f", "a", "i", "l", "e", "d">>]}

\* TaskJudgeAgent.parse_response: a text without a status and with a reason
\* gets the status its reason suggests
JudgeParse(o) ==
    [task_status |->
        IF o.status = "" /\ o.reason # << >>
        THEN (IF Contains(SuccessWord, o.reason) \/ Contains(CompletedWord, o.reason)
              THEN "Success"
              ELSE IF Contains(FailWord, o.reason) THEN "Failed"
              ELSE "")
        ELSE o.status,
     status_reason |-> o.reason]

\* _update_infopool_data in step s: plans and progress get an element, the
\* two arrays of completed subgoals only when there is a completed plan /
\* a summary (the elements are named by the step of the update)
UpdateInfopool(info, s, cplan, csummary) ==
    [plans |-> Append(info.plans, s),
     progress |-> Append(info.progress, s),
     completed_subgoals |->
        IF cplan \notin NoSubgoalSummaries
        THEN Append(info.completed_subgoals, s)
        ELSE info.completed_subgoals,
     completed_subgoals_summary |->
        IF csummary \notin NoSubgoalSummaries
        THEN Append(info.completed_subgoals_summary, s)
        ELSE info.completed_subgoals_summary]

\* the finish check: on a finished plan the thought becomes the status
\* report, the task judge runs when enabled and its status and reason are
\* written, the infopool is updated, the results are saved with step_limit
\* 0.0 and the loop is left
CheckFinished(o) ==
    /\ pc = "check"
    /\ IF IsFinished(plan)
       THEN /\ invoked' = IF enable_task_judge THEN invoked \cup {"task_judge"}
                          ELSE invoked
            /\ judge_output' = IF enable_task_judge THEN o ELSE judge_output
            /\ task_results' = SaveFinalResults(
                    [task_results EXCEPT
                        !.exists = TRUE,
                        !.test_status_report = IF thought THEN "thought" ELSE @,
                        !.task_judger = IF enable_task_judge
                                        THEN JudgeParse(o).task_status ELSE @,
                        !.judger_reason = IF enable_task_judge
                                          THEN JudgeParse(o).status_reason ELSE @],
                    0)
            /\ infopool_data' = UpdateInfopool(infopool_data, step,
                                    completed_plan, completed_plan_summary)
            /\ pc' = "after_loop"
       ELSE /\ pc' = "exec"
            /\ UNCHANGED <<invoked, task_results, judge_output, infopool_data>>
    /\ UNCHANGED <<step, local_image_dir, size, local_image_dir2, shots, plan, thought,
                   error_flag_plan, skip_planner, last_action, last_summary,
                   action_history, summary_history, action_outcomes,
                   error_descriptions, dispatched, home_calls,
                   enable_task_judge, enable_tree_stagnation_check, max_step,
                   perception_mode, current_som_mapping, som_mapping,
                   last_used_mark, ui_similarity, execution_result,
                   reflection_result, completed_plan_summary, completed_plan>>
    /\ script_data' = IF IsFinished(plan)
                      THEN UpdateScriptData(script_data, plan, last_command_str)
                      ELSE script_data
    /\ UNCHANGED last_command_str

\* StateManager.append_action: one entry on each of the four histories
AppendActionSkippingOutcome(histories, action, summary, outcome, error_description) ==
    [histories EXCEPT
        !.action_history = Append(@, action),
        !.summary_history = Append(@, summary),
        !.error_descriptions = Append(@, error_description)]

append_action(histories, action, summary, outcome, error_description) ==
    [action_history |-> Append(histories.action_history, action),
     summary_history |-> Append(histories.summary_history, summary),
     action_outcomes |-> Append(histories.action_outcomes, outcome),
     error_descriptions |-> Append(histories.error_descriptions, error_description)]

\* the four histories of the execution state, and their assignment
Histories ==
    [action_history |-> action_history,
     summary_history |-> summary_history,
     action_outcomes |-> action_outcomes,
     error_descriptions |-> error_descriptions]

SetHistories(h) ==
    /\ action_history' = h.action_history
    /\ summary_history' = h.summary_history
    /\ action_outcomes' = h.action_outcomes
    /\ error_descriptions' = h.error_descriptions

\* an answer that leaves the loop
AfterAnswerBreak ==
    "after_loop"

\* where the orchestrator goes on after an answer: no exit, the
\* post-action screenshot comes next
AfterAnswer ==
    "post_shot"

\* ExecutionChain.run and the orchestrator's handling of its result
ExecutionPhase(response) ==
    /\ pc = "exec"
    /\ invoked' = invoked \cup {"executor"}
    /\ LET desc == response.description
           summary == IF desc # "" THEN desc ELSE last_summary
           loaded == LoadSomMapping(local_image_dir)
           was_set == perception_mode = "som" /\
                        (current_som_mapping.marks # {}
                            \/ current_som_mapping.image = local_image_dir)
           action_object == IF response.thought /\ response.action # ""
                            THEN ParseActionString(response.action)
                            ELSE ""
       IN
       /\ last_summary' = summary
       /\ som_mapping' = loaded
       /\ IF action_object = ""
          THEN \* invalid: recorded with N, action_object is None -> continue
               /\ last_action' = "invalid"
               /\ SetHistories(append_action(Histories, "invalid", desc, "N",
                                    "invalid action format, do nothing."))
               /\ last_used_mark' = IF was_set THEN NoMark ELSE last_used_mark
               /\ step' = step + 1
               /\ pc' = "loop"
               /\ UNCHANGED dispatched
          ELSE IF action_object = "answer"
          THEN \* recorded by the chain and once more by the orchestrator
               /\ last_action' = "answer"
               /\ SetHistories(
                    append_action(
                        append_action(Histories, "answer", desc, "S", "None"),
                        "answer", desc, "S", "None"))
               /\ last_used_mark' = IF was_set THEN NoMark ELSE last_used_mark
               /\ pc' = AfterAnswer
               /\ UNCHANGED <<step, dispatched>>
          ELSE \* action_service.execute_action: a click on a point is sent to
               \* the device, a click on a mark only when the mapping has it
               /\ last_action' = ActionField(action_object)
               /\ IF action_object = "click_mark"
                  THEN IF perception_mode = "som" /\ "1" \in loaded.marks
                       THEN /\ last_used_mark' = "1"
                            /\ dispatched' = dispatched + 1
                       ELSE /\ last_used_mark' = NoMark
                            /\ UNCHANGED dispatched
                  ELSE /\ last_used_mark' = NoMark
                       /\ dispatched' = dispatched + 1
               /\ pc' = "post_shot"
               /\ UNCHANGED <<step, action_history, summary_history,
                              action_outcomes, error_descriptions>>
       /\ execution_result' = [thought |-> response.thought,
                               action |-> response.action,
                               description |-> desc,
                               action_object |-> action_object,
                               command_str |-> IF dispatched' > dispatched
                                               THEN step + 1 ELSE NoCommand]
    /\ UNCHANGED <<local_image_dir, size, local_image_dir2, shots, plan, thought,
                   error_flag_plan, skip_planner, home_calls, task_results,
                   enable_task_judge, enable_tree_stagnation_check, max_step,
                   perception_mode, current_som_mapping, ui_similarity,
                   reflection_result, completed_plan_summary, completed_plan,
                   judge_output, infopool_data>>
    /\ UNCHANGED <<script_data, last_command_str>>

\* local_image_dir2 = take_screenshot(); without an image the run is saved
\* with step_limit 1.0 and returns.  similarity is what the UI dumps of the
\* screens before and after the action have in common
PostScreenshot(shot_ok, som, similarity) ==
    /\ pc = "post_shot"
    /\ IF shot_ok
       THEN /\ local_image_dir2' = PostImage(step)
            /\ shots' = shots + 1
            /\ current_som_mapping' = ProcessSom(PostImage(step), som)
            /\ ui_similarity' = similarity
            /\ pc' = "reflect"
            /\ UNCHANGED <<task_results, home_calls>>
       ELSE /\ local_image_dir2' = NoImage
            /\ task_results' = SaveFinalResults(task_results, 1)
            /\ home_calls' = home_calls + 1
            /\ pc' = "returned"
            /\ UNCHANGED <<shots, current_som_mapping, ui_similarity>>
    /\ UNCHANGED <<step, local_image_dir, size, plan, thought, error_flag_plan,
                   skip_planner, last_action, last_summary, action_history,
                   summary_history, action_outcomes, error_descriptions,
                   invoked, dispatched, enable_task_judge,
                   enable_tree_stagnation_check, max_step, perception_mode,
                   som_mapping, last_used_mark, execution_result,
                   reflection_result, completed_plan_summary, completed_plan,
                   judge_output, infopool_data>>
    /\ UNCHANGED <<script_data, last_command_str>>

\* ReflectionChain.run: the outcome letter, the stagnation remap of C, the
\* appended record, the path summarizer on every fifth step that succeeded;
\* a response without S, B or C raises ValueError
ReflectionPhase(outcome, summary) ==
    /\ pc = "reflect"
    /\ LET llm_outcome == ParseOutcome(outcome)
           checked == llm_outcome = "C" /\ enable_tree_stagnation_check
           tree_confirmed == IF checked THEN Confirm(ui_similarity) ELSE "None"
           final_outcome == FinalOutcome(llm_outcome, tree_confirmed)
           summarize == ShouldSummarize(step, final_outcome)
       IN
       IF llm_outcome = ""
       THEN /\ pc' = "raised"
            /\ invoked' = invoked \cup {"reflector"}
            /\ UNCHANGED <<step, action_history, summary_history,
                           action_outcomes, error_descriptions,
                           reflection_result, completed_plan_summary,
                           infopool_data>>
       ELSE /\ SetHistories(append_action(Histories, last_action, last_summary,
                                          final_outcome, "reflection"))
            /\ invoked' = invoked \cup {"reflector"} \cup
                            (IF summarize THEN {"path_summarizer"} ELSE {})
            /\ completed_plan_summary' =
                    IF summarize /\ summary # "" THEN <<summary>>
                    ELSE completed_plan_summary
            /\ reflection_result' =
                    [llm_outcome |-> llm_outcome,
                     tree_similarity |-> IF checked THEN ui_similarity
                                         ELSE NoSimilarity,
                     tree_confirmed |-> tree_confirmed,
                     final_outcome |-> final_outcome,
                     path_summarizer |-> summarize]
            /\ infopool_data' = UpdateInfopool(infopool_data, step,
                                    completed_plan, completed_plan_summary')
            /\ step' = step + 1
            /\ pc' = "loop"
    /\ UNCHANGED <<local_image_dir, size, local_image_dir2, shots, plan, thought,
                   error_flag_plan, skip_planner, last_action, last_summary,
                   dispatched, home_calls, task_results, enable_task_judge,
                   enable_tree_stagnation_check, max_step, perception_mode,
                   current_som_mapping, som_mapping, last_used_mark,
                   ui_similarity, execution_result, completed_plan,
                   judge_output>>
    /\ IF ParseOutcome(outcome) = ""
       THEN UNCHANGED <<script_data, last_command_str>>
       ELSE /\ last_command_str' = execution_result.command_str
            /\ script_data' = UpdateScriptData(script_data, plan,
                                               execution_result.command_str)

\* after the loop (budget used up, or break): save with step_limit 1.0 when
\* there is no task_results.json yet, then device_controller.home()
LoopEnd ==
    /\ \/ pc = "loop" /\ step = max_step
       \/ pc = "after_loop"
    /\ task_results' = IF task_results.exists THEN task_results
                       ELSE SaveFinalResults(task_results, 1)
    /\ home_calls' = home_calls + 1
    /\ pc' = "returned"
    /\ UNCHANGED <<step, local_image_dir, size, local_image_dir2, shots, plan, thought,
                   error_flag_plan, skip_planner, last_action, last_summary,
                   action_history, summary_history, action_outcomes,
                   error_descriptions, invoked, dispatched, enable_task_judge,
                   enable_tree_stagnation_check, max_step, perception_mode,
                   current_som_mapping, som_mapping, last_used_mark,
                   ui_similarity, execution_result, reflection_result,
                   completed_plan_summary, completed_plan, judge_output,
                   infopool_data>>
    /\ script_data' = UpdateScriptData(script_data, plan, last_command_str)
    /\ UNCHANGED last_command_str

\* one step of the loop with its inputs drawn from the sets of In
LoopStep(In) ==
    /\ \/ \E shot_ok \in In.shots, size_ok \in In.sizes, som \in In.soms :
                LoopBegin(shot_ok, size_ok, som)
       \/ \E p \in In.plans, has_thought \in In.thoughts,
             has_subgoal \in In.subgoals :
                PlanningPhase(p, has_thought, has_subgoal)
       \/ \E o \in In.verdicts : CheckFinished(o)
       \/ \E response \in In.responses : ExecutionPhase(response)
       \/ \E shot_ok \in In.shots, som \in In.soms,
             similarity \in In.similarities :
                PostScreenshot(shot_ok, som, similarity)
       \/ \E outcome \in In.outcomes, summary \in In.summaries :
                ReflectionPhase(outcome, summary)
       \/ LoopEnd
    /\ UNCHANGED <<jobVars, trickVars, pureVars>>

\* the inputs of a run that looks at the screenshots themselves
VllmInputs ==
    [shots |-> BOOLEAN, sizes |-> BOOLEAN,
     soms |-> {[ok |-> FALSE, marks |-> {}]},
     plans |-> PlanTexts, thoughts |-> BOOLEAN, subgoals |-> {FALSE},
     verdicts |-> JudgeOutputs,
     responses |-> ExecutorResponses,
     similarities |-> Similarities,
     outcomes |-> OutcomeTexts, summaries |-> {"summary"}]

LoopNext ==
    LoopStep(VllmInputs)

\* one run of the orchestrator, the job service untouched
LoopSpecInit ==
    /\ JobInit
    /\ Cardinality(all_devices) = 1
    /\ LoopInit
    /\ TricksIdle
    /\ PureIdle
    /\ max_step = MaxStep
    /\ perception_mode = "vllm"

LoopSpec ==
    LoopSpecInit /\ [][LoopNext]_vars

\* one run of the orchestrator in which each model call and each device call
\* returns: a step that can be taken is taken
FairLoopSpec ==
    LoopSpecInit /\ [][LoopNext]_vars /\ WF_vars(LoopNext)

\* the inputs of a run in mark-indexed (SoM) mode: every screenshot is
\* marked, marked with nothing, or its marking fails; the executor clicks on
\* a point or on the mark "1"
SomInputs ==
    [shots |-> BOOLEAN, sizes |-> BOOLEAN,
     soms |-> SomResults,
     plans |-> {<<"F", "i", "n", "i", "s", "h", "e", "d">>, << >>},
     thoughts |-> {TRUE}, subgoals |-> {FALSE},
     verdicts |-> {[error |-> FALSE, status |-> "Success",
                    reason |-> <<"r", "e", "a", "s", "o", "n">>]},
     responses |-> {MarkClickResponse,
                    [thought |-> TRUE, action |-> "click",
                     description |-> "description"],
                    [thought |-> TRUE, action |-> "garbage",
                     description |-> "description"]},
     similarities |-> {NoSimilarity},
     outcomes |-> {<<"S">>, <<"C">>}, summaries |-> {"summary"}]

SomNext ==
    LoopStep(SomInputs)

SomSpecInit ==
    /\ JobInit
    /\ Cardinality(all_devices) = 1
    /\ LoopInit
    /\ TricksIdle
    /\ PureIdle
    /\ max_step = MaxStep
    /\ perception_mode = "som"

\* one run of the orchestrator in SoM mode
SomSpec ==
    SomSpecInit /\ [][SomNext]_vars

\* the inputs of a long run: the screenshots succeed, the plan is never
\* finished, the planner reports a completed subgoal or none, the executor
\* clicks, the summarizer returns no summary, the sentinel text
\* or a summary
SummaryInputs ==
    [shots |-> {TRUE}, sizes |-> {TRUE},
     soms |-> {[ok |-> FALSE, marks |-> {}]},
     plans |-> {<< >>}, thoughts |-> {TRUE}, subgoals |-> BOOLEAN,
     verdicts |-> {[error |-> FALSE, status |-> "Success",
                    reason |-> <<"r", "e", "a", "s", "o", "n">>]},
     responses |-> {[thought |-> TRUE, action |-> "click",
                     description |-> "description"]},
     similarities |-> {72, 100},
     outcomes |-> {<<"S">>, <<"C">>},
     summaries |-> {"", "No completed subgoal.", "summary"}]

SummaryNext ==
    LoopStep(SummaryInputs)

SummarySpecInit ==
    /\ JobInit
    /\ Cardinality(all_devices) = 1
    /\ LoopInit
    /\ TricksIdle
    /\ PureIdle
    /\ max_step = LongMaxStep
    /\ perception_mode = "vllm"

\* one long run of the orchestrator
SummarySpec ==
    SummarySpecInit /\ [][SummaryNext]_vars

\* the inputs of a run with invalid executor responses: the screenshots
\* succeed, the size of an image is read or not, the plan is never finished,
\* the executor clicks, answers or gives a response without Thought or with
\* an action text that is no JSON, the reflector answers S or C
ReplanInputs ==
    [shots |-> {TRUE}, sizes |-> BOOLEAN,
     soms |-> {[ok |-> FALSE, marks |-> {}]},
     plans |-> {<< >>}, thoughts |-> {TRUE}, subgoals |-> {FALSE},
     verdicts |-> {[error |-> FALSE, status |-> "Success",
                    reason |-> <<"r", "e", "a", "s", "o", "n">>]},
     responses |-> {[thought |-> TRUE, action |-> "click",
                     description |-> "description"],
                    [thought |-> TRUE, action |-> "answer",
                     description |-> "description"],
                    [thought |-> FALSE, action |-> "click",
                     description |-> "description"],
                    [thought |-> TRUE, action |-> "garbage",
                     description |-> "description"]},
     similarities |-> {72},
     outcomes |-> {<<"S">>, <<"C">>},
     summaries |-> {"summary"}]

ReplanNext ==
    LoopStep(ReplanInputs)

ReplanSpecInit ==
    /\ JobInit
    /\ Cardinality(all_devices) = 1
    /\ LoopInit
    /\ TricksIdle
    /\ PureIdle
    /\ max_step = LongMaxStep
    /\ perception_mode = "vllm"

\* one long run of the orchestrator with invalid executor responses
ReplanSpec ==
    ReplanSpecInit /\ [][ReplanNext]_vars

(***************************************************************************)
(* TaskOrchestrator._persist_app_tricks: the tricks file                   *)
(***************************************************************************)
\* the length a title taken from the content is cut to
TitleLimit ==
    32

\* the tricks a response of the task judge can name: a known type or another
\* one, a title (none, or one with a leading blank) and a content (none or
\* one)
RawTricks ==
    [type : {"Hidden entry", "tip"},
     title : {<< >>, <<" ", "x">>},
     content : {<< >>, <<"y">>}]

RawTrickLists ==
    UNION {[1..n -> RawTricks] : n \in 0..MaxTricks}

TrickTypes ==
    {"Misclick risk", "Hidden entry", "Critical step", "Counterintuitive"}

\* _ensure_trick_item: the texts are stripped, a missing title is the start
\* of the content, an unknown type is dropped; << >> stands for None (no
\* title and no content)
EnsureTrickItem(obj) ==
    LET content == Strip(obj.content)
        title == IF Strip(obj.title) = << >>
                 THEN SubSeq(content, 1, IF Len(content) < TitleLimit
                                         THEN Len(content) ELSE TitleLimit)
                 ELSE Strip(obj.title)
    IN  IF title = << >> /\ content = << >>
        THEN << >>
        ELSE <<[type |-> IF obj.type \in TrickTypes THEN obj.type ELSE "",
                title |-> title, content |-> content]>>

\* the app_tricks of the parsed response: the items that are not None
RECURSIVE AppTricks(_)
AppTricks(raw) ==
    IF raw = << >> THEN << >>
    ELSE EnsureTrickItem(Head(raw)) \o AppTricks(Tail(raw))

\* the key of an entry
TrickKey(it) ==
    <<it.type, it.title, it.content>>

\* the keys of the entries of a bucket
Seen(bucket) ==
    {TrickKey(bucket[i]) : i \in DOMAIN bucket}

\* a test that finds no key seen
NeverSeen(key, seen) ==
    FALSE

\* key in seen
AlreadySeen(key, seen) ==
    key \in seen

\* the loop over the tricks: an entry without title and content and an
\* entry whose key was seen are skipped, another one is appended, with the
\* run that wrote it, and its key is seen from then on
RECURSIVE AppendTricks(_, _, _, _)
AppendTricks(bucket, seen, tricks, r) ==
    IF tricks = << >> THEN bucket
    ELSE LET it == Head(tricks)
             e == [type |-> it.type, title |-> Strip(it.title),
                   content |-> Strip(it.content), run_dir |-> r]
         IN  IF (e.title = << >> /\ e.content = << >>)
                    \/ AlreadySeen(TrickKey(e), seen)
             THEN AppendTricks(bucket, seen, Tail(tricks), r)
             ELSE AppendTricks(Append(bucket, e), seen \cup {TrickKey(e)},
                               Tail(tricks), r)

\* _persist_app_tricks up to the read of tricks.json: without tricks it
\* returns at once, with tricks it reads the whole file
PersistRead(r, app, raw) ==
    /\ persist[r].pc = "idle"
    /\ persist' = [persist EXCEPT ![r] =
            IF AppTricks(raw) = << >>
            THEN [@ EXCEPT !.pc = "done", !.app = app]
            ELSE [pc |-> "read", app |-> app, tricks |-> AppTricks(raw),
                  existing |-> tricks_file]]
    /\ UNCHANGED tricks_file

\* _persist_app_tricks from the read on: the bucket of the app gets the new
\* tricks and the whole file that was read is written back
PersistWrite(r) ==
    /\ persist[r].pc = "read"
    /\ tricks_file' = [persist[r].existing EXCEPT
            ![persist[r].app] = AppendTricks(@, Seen(@), persist[r].tricks, r)]
    /\ persist' = [persist EXCEPT ![r].pc = "done"]

\* the runs that share a log directory: each persists the tricks of its
\* judge once, at its Finished exit, and no lock orders their steps
TrickNext ==
    /\ \/ \E r \in Runs, app \in Apps, raw \in RawTrickLists :
                PersistRead(r, app, raw)
       \/ \E r \in Runs : PersistWrite(r)
    /\ UNCHANGED <<jobVars, loopVars, pureVars>>

\* tricks files without two entries of one key in a bucket, written by
\* earlier runs (run_dir 0)
InitialTricksFiles ==
    {NoTricksFile} \cup
    {[NoTricksFile EXCEPT ![a] = <<[type |-> "", title |-> <<"x">>,
                                    content |-> c, run_dir |-> 0]>>] :
        a \in Apps, c \in {<< >>, <<"y">>}}

TrickSpecInit ==
    /\ JobInit
    /\ Cardinality(all_devices) = 1
    /\ LoopInit
    /\ enable_task_judge
    /\ ~enable_tree_stagnation_check
    /\ max_step = MaxStep
    /\ perception_mode = "vllm"
    /\ PureIdle
    /\ tricks_file \in InitialTricksFiles
    /\ persist = [r \in Runs |-> IdlePersist]

TrickSpec ==
    TrickSpecInit /\ [][TrickNext]_vars

(***************************************************************************)
(* Properties of the job service                                           *)
(***************************************************************************)
\* the jobs of user u recorded in the job store as queued or running
ActiveJobsOf(u) ==
    {j \in DOMAIN job_store :
        runReq[j].user = u /\ job_store[j].status \in ActiveStatuses}



\* C1: in every reachable state, for each user at most one job submitted by
\* that user has status queued or running
C1_AtMostOneActiveJobPerUser ==
    \A u \in Users : Cardinality(ActiveJobsOf(u)) <= 1

\* C2: once a job's status is stopped no later write changes it (neither
\* run_job's start, run_job's finalization nor the worker's failure path)
C2_StoppedIsNeverOverwritten ==
    [][\A j \in DOMAIN job_store :
            job_store[j].status = "stopped" => job_store'[j].status = "stopped"]_vars

\* the status changes the lifecycle queued -> running -> terminal allows
LifecycleStep(a, b) ==
    \/ a = b
    \/ a = "queued" /\ b \in {"running"} \cup TerminalStatuses
    \/ a = "running" /\ b \in TerminalStatuses

\* C3: a job is created queued, becomes running only from queued, reaches a
\* terminal status only from queued or running and never leaves a terminal
\* status
C3_StatusFollowsLifecycle ==
    [][\A j \in DOMAIN job_store' :
            IF j \in DOMAIN job_store
            THEN LifecycleStep(job_store[j].status, job_store'[j].status)
            ELSE job_store'[j].status = "queued"]_vars

\* C4: a job that POST /stop has marked stopped has no running control-loop
\* subprocess
C4_StoppedJobHasNoRunningSubprocess ==
    \A j \in DOMAIN job_store :
        job_store[j].status = "stopped" => procs[j] # "running"

\* how often device d is in the idle queue / how many workers hold it
IdleCount(d) ==
    Cardinality({i \in 1..Len(idle_devices) : idle_devices[i] = d})

Holders(d) ==
    {w \in Workers : worker[w].device = d}

\* the workers that are inside run_job
InRunJob ==
    {w \in Workers :
        worker[w].pc \in {"launch", "poll", "read_status", "finalize"}}

\* C5: each device of the pool is either idle or held by exactly one worker
\* for one job; jobs whose runs overlap have different device ids; the jobs
\* with a running subprocess are never more than the devices
C5_DeviceHeldByOneJob ==
    /\ \A d \in all_devices : IdleCount(d) + Cardinality(Holders(d)) = 1
    /\ \A w \in Workers : worker[w].device # NoDevice => worker[w].job # NoJob
    /\ \A w1, w2 \in InRunJob :
            w1 # w2 =>
                /\ worker[w1].job # worker[w2].job
                /\ job_store[worker[w1].job].device_id
                        # job_store[worker[w2].job].device_id
    /\ \A w \in InRunJob :
            job_store[worker[w].job].device_id = worker[w].device
    /\ \A j \in JobIds :
            procs[j] = "running" =>
                \E w \in InRunJob : worker[w].job = j /\ worker[w].device \in all_devices
    /\ Cardinality({j \in JobIds : procs[j] = "running"}) <= Cardinality(all_devices)

\* two jobs run at the same time, each on its own device
C5_Witness ==
    \E w1, w2 \in InRunJob :
        /\ w1 # w2
        /\ procs[worker[w1].job] = "running"
        /\ procs[worker[w2].job] = "running"
        /\ IdleCount(worker[w1].device) = 0

QueueSet(q) ==
    {q[i] : i \in 1..Len(q)}

\* C6: every acquired device is eventually idle again, returned exactly once
\* per acquisition, and a job enters the task queue only at its creation (so
\* no later event acquires a device for it again)
C6_DeviceEventuallyReleasedOnce ==
    /\ \A d \in 1..NumDevices :
            (\E w \in WorkerIds : worker[w].device = d) ~> (IdleCount(d) = 1)
    /\ [][\A w \in WorkerIds :
            (worker[w].device # NoDevice /\ worker'[w].device # worker[w].device)
                => idle_devices' = Append(idle_devices, worker[w].device)]_vars
    /\ [][\A j \in QueueSet(task_queue') :
            j \in QueueSet(task_queue) \/ runReq[j].pc = "create"]_vars

\* a stopped job's worker has given its device back
C6_Witness ==
    \E j \in DOMAIN job_store :
        /\ job_store[j].status = "stopped"
        /\ job_store[j].device_id # NoDevice
        /\ IdleCount(job_store[j].device_id) = 1
        /\ \A w \in Workers : worker[w].job # j

\* C7: a POST /run by a user who has a job recorded as queued or running is
\* answered 400 naming that job and changes neither the job store, the
\* user-active map nor the task queue
C7_ActiveUserIsRejected ==
    [][\A r \in JobIds :
            (/\ runReq[r].pc \in {"idle", "register"}
             /\ runReq'[r].pc # runReq[r].pc
             /\ ActiveJobsOf(runReq'[r].user) # {})
            => /\ runReq'[r].pc = "done"
               /\ runReq'[r].code = 400
               /\ runReq'[r].named \in ActiveJobsOf(runReq'[r].user)
               /\ UNCHANGED <<job_store, USER_RUNNING_JOBS, task_queue>>]_vars

(***************************************************************************)
(* Properties of the orchestrator loop                                     *)
(***************************************************************************)
\* at least k outcomes are recorded and the last k are all B, C or N
LastOutcomesAllErrors(outcomes, k) ==
    /\ Len(outcomes) >= k
    /\ \A i \in 1..Len(outcomes) :
            i > Len(outcomes) - k => outcomes[i] \in {"B", "C", "N"}

\* a step that starts an iteration of the outer loop
IterationStarts ==
    pc = "loop" /\ step < max_step

SkipCondition ==
    ~error_flag_plan /\ last_action = "invalid"

PlanSaysFinished ==
    /\ \E i \in 1..Len(Strip(plan)) :
            /\ i + Len(FinishedText) - 1 <= Len(Strip(plan))
            /\ \A n \in 1..Len(FinishedText) :
                    Strip(plan)[i + n - 1] = FinishedText[n]
    /\ Len(Strip(plan)) < 15

\* C10: when the plan at the check after the planning phase, trimmed,
\* contains "Finished" and is shorter than 15 characters, the loop is left in
\* that iteration with no executor call and no device action, and
\* task_results.json holds task_status "Completed" and step_limit 0, which
\* the code after the loop keeps
C10_FinishedPlanEndsTheLoop ==
    /\ [][(pc = "check" /\ PlanSaysFinished) =>
            /\ pc' = "after_loop"
            /\ step' = step
            /\ "executor" \notin invoked'
            /\ dispatched' = 0
            /\ home_calls' = 0
            /\ task_results'.exists
            /\ task_results'.task_status = "Completed"
            /\ task_results'.step_limit = 0]_vars
    /\ [][pc = "after_loop" =>
            /\ pc' = "returned"
            /\ task_results' = task_results
            /\ invoked' = invoked
            /\ dispatched' = dispatched]_vars

\* a run that ended on a finished plan of 14 characters
C10_Witness ==
    /\ pc = "returned"
    /\ PlanSaysFinished
    /\ Len(plan) = 14
    /\ task_results.task_status = "Completed"
    /\ task_results.step_limit = 0
    /\ "executor" \notin invoked

\* C11: when max_step iterations are over and the plan never was finished,
\* the run writes task_results.json with task_status "Not Completed",
\* step_limit 1 and the report "Reached maximum execution limit"
C11_BudgetExhaustedIsNotCompleted ==
    /\ [][(pc = "loop" /\ step = max_step) =>
            /\ pc' = "returned"
            /\ task_results'.exists
            /\ task_results'.task_status = "Not Completed"
            /\ task_results'.step_limit = 1
            /\ task_results'.test_status_report
                    = "Reached maximum execution limit"]_vars
    /\ [][pc = "returned" => task_results' = task_results]_vars

\* a run that used up its budget with a reflected action in every iteration
C11_Witness ==
    /\ pc = "returned"
    /\ step = MaxStep
    /\ Len(action_outcomes) = MaxStep
    /\ task_results.task_status = "Not Completed"
    /\ task_results.step_limit = 1

\* the outcome recorded last
LastOutcome(outcomes) ==
    outcomes[Len(outcomes)]

\* a reflection that has recorded its outcome
ReflectionRecorded ==
    pc = "reflect" /\ pc' = "loop"

\* C12: a reflector outcome C with the stagnation check enabled and a
\* similarity computed is recorded as N when the similarity is at least the
\* threshold (the threshold itself included) and as S when it is below;
\* reflector outcomes S and B are recorded unchanged
C12_StagnationRemap ==
    [][ReflectionRecorded =>
        LET llm == reflection_result'.llm_outcome
            recorded == LastOutcome(action_outcomes')
        IN
        /\ Len(action_outcomes') = Len(action_outcomes) + 1
        /\ (llm = "C" /\ enable_tree_stagnation_check
                /\ ui_similarity # NoSimilarity)
            => /\ ui_similarity >= tree_similarity_threshold => recorded = "N"
               /\ ui_similarity < tree_similarity_threshold => recorded = "S"
        /\ llm \in {"S", "B"} => recorded = llm]_vars

\* a reflector outcome C at exactly the threshold has been recorded as N
C12_Witness ==
    /\ pc = "loop"
    /\ reflection_result.llm_outcome = "C"
    /\ enable_tree_stagnation_check
    /\ ui_similarity = tree_similarity_threshold
    /\ action_outcomes # << >>
    /\ LastOutcome(action_outcomes) = "N"

\* the execution chain has run in this step
ExecutionRan ==
    pc = "exec" /\ pc' # "exec"

\* an executor response without Thought, without Action, or with an action
\* text that is no JSON
InvalidResponse(r) ==
    ~r.thought \/ r.action = "" \/ r.action = "garbage"

\* C13: an executor response that lacks Thought or Action, or whose action
\* JSON cannot be parsed, makes the execution chain record the invalid
\* pseudo-action with outcome N as the last entry of the execution history
\* and set it as the last action, and no device operation is dispatched in
\* that step
C13_InvalidResponseIsRecordedAsN ==
    [][(ExecutionRan /\ InvalidResponse(execution_result')) =>
        /\ action_history' = Append(action_history, "invalid")
        /\ summary_history' = Append(summary_history, execution_result'.description)
        /\ action_outcomes' = Append(action_outcomes, "N")
        /\ error_descriptions' =
                Append(error_descriptions, "invalid action format, do nothing.")
        /\ last_action' = "invalid"
        /\ dispatched' = 0
        /\ pc' = "loop"
        /\ step' = step + 1]_vars

\* an action text that is no JSON has been recorded as invalid
C13_Witness ==
    /\ pc = "loop"
    /\ execution_result.thought
    /\ execution_result.action = "garbage"
    /\ last_action = "invalid"
    /\ action_outcomes # << >>
    /\ LastOutcome(action_outcomes) = "N"
    /\ dispatched = 0

\* the last k entries of a sequence
LastEntries(s, k) ==
    SubSeq(s, Len(s) - k + 1, Len(s))

\* C14: an answer action dispatches no device operation and is recorded
\* with outcome S, and the loop is not left on it: the post-action
\* screenshot is taken and, with that image, the reflection chain runs in
\* the same iteration
C14_AnswerContinuesTheLoop ==
    /\ [][(ExecutionRan /\ execution_result'.action_object = "answer") =>
            /\ dispatched' = 0
            /\ last_action' = "answer"
            /\ Len(action_outcomes') > Len(action_outcomes)
            /\ LastOutcome(action_outcomes') = "S"
            /\ action_history'[Len(action_history')] = "answer"
            /\ pc' = "post_shot"
            /\ step' = step]_vars
    /\ [][(pc = "post_shot" /\ last_action = "answer") =>
            /\ step' = step
            /\ dispatched' = 0
            /\ \/ pc' = "reflect" /\ local_image_dir2' = PostImage(step)
               \/ pc' = "returned" /\ local_image_dir2' = NoImage]_vars
    /\ [][(pc = "reflect" /\ last_action = "answer") =>
            /\ "reflector" \in invoked'
            /\ dispatched' = 0
            /\ pc' \in {"loop", "raised"}
            /\ pc' = "loop" =>
                    /\ step' = step + 1
                    /\ LastEntries(action_history', 3) = <<"answer", "answer", "answer">>
                    /\ SubSeq(LastEntries(action_outcomes', 3), 1, 2) = <<"S", "S">>]_vars

\* an answer went through the post-action screenshot and the reflection of
\* its iteration
C14_Witness ==
    /\ pc = "loop"
    /\ execution_result.action_object = "answer"
    /\ "reflector" \in invoked
    /\ reflection_result.llm_outcome = "B"
    /\ local_image_dir2 = PostImage(step - 1)
    /\ dispatched = 0

\* C15: in every iteration with step >= 1 the pre-action image used for
\* planning and execution is the post-action image taken in iteration
\* step - 1, whatever valid, invalid and answer steps came before
C15_PreImageIsPreviousPostImage ==
    (pc \in {"plan", "check", "exec"} /\ step >= 1)
        => local_image_dir = PostImage(step - 1)

\* C16: in SoM mode every mark used by a click that is dispatched to the
\* device is in the SoM map produced for the pre-action screenshot of that
\* step, never in a map left from an earlier screenshot, also when the
\* marking of the pre-action screenshot failed or gave an empty map
C16_DispatchedMarkIsInCurrentMap ==
    [][(ExecutionRan /\ dispatched' > dispatched /\ last_used_mark' # NoMark) =>
        /\ som_mapping'.image = local_image_dir
        /\ last_used_mark' \in som_mapping'.marks]_vars

\* the UI dumps of the screens before and after the action are known to be
\* alike (similarity at least the threshold)
ScreensAlike ==
    ui_similarity # NoSimilarity /\ ui_similarity >= tree_similarity_threshold

\* C17: every outcome S recorded in the execution history belongs to a step
\* whose post-action screenshot differs materially from its pre-action
\* screenshot or whose action kind is answer
C17_SuccessMeansScreenChanged ==
    [][\A i \in (Len(action_outcomes) + 1)..Len(action_outcomes') :
            action_outcomes'[i] = "S"
                => action_history'[i] = "answer" \/ ~ScreensAlike]_vars

\* C18: when the verdict of the task judge written for a run is "Success",
\* the last outcome recorded in the execution history is S or the last
\* action was an answer
C18_SuccessVerdictFollowsSuccess ==
    (task_results.task_judger = "Success" /\ action_outcomes # << >>)
        => LastOutcome(action_outcomes) = "S" \/ last_action = "answer"

\* new is old with one more part, or the first subgoal of a summary that
\* held none
Extends(old, new) ==
    \/ old \in NoSubgoalSummaries /\ Len(new) = 1
    \/ old \notin NoSubgoalSummaries /\ Len(new) = Len(old) + 1
            /\ SubSeq(new, 1, Len(old)) = old

\* C19: the path summarizer is invoked in a reflection step exactly when
\* (step + 1) mod 5 = 0 and the final outcome of that step (after the
\* stagnation remap) is S; in no other step is completed_plan_summary
\* replaced (the planner only adds the subgoal it reports as completed)
C19_SummarizerEveryFifthSuccess ==
    /\ [][ReflectionRecorded =>
            ("path_summarizer" \in invoked'
                <=> ((step + 1) % 5 = 0 /\ LastOutcome(action_outcomes') = "S"))]_vars
    /\ [][("path_summarizer" \in invoked' /\ "path_summarizer" \notin invoked)
            => ReflectionRecorded]_vars
    /\ [][completed_plan_summary' # completed_plan_summary =>
            \/ /\ ReflectionRecorded
               /\ "path_summarizer" \in invoked'
               /\ (step + 1) % 5 = 0
               /\ LastOutcome(action_outcomes') = "S"
            \/ /\ pc = "plan"
               /\ Extends(completed_plan_summary, completed_plan_summary')]_vars

\* on the fifth step a remapped outcome S made the summarizer replace a
\* summary of several subgoals
C19_Witness ==
    /\ pc = "loop"
    /\ step = 5
    /\ "path_summarizer" \in invoked
    /\ reflection_result.llm_outcome = "C"
    /\ reflection_result.final_outcome = "S"
    /\ completed_plan_summary = <<"summary">>

\* C20: between chain calls the four execution sequences (actions,
\* descriptions, outcomes, error descriptions) have equal length, after any
\* sequence of planning, execution and reflection chain runs
C20_HistoriesHaveEqualLength ==
    /\ Len(summary_history) = Len(action_history)
    /\ Len(action_outcomes) = Len(action_history)
    /\ Len(error_descriptions) = Len(action_history)

\* an invalid step, an answer and a reflected click have all been recorded
C20_Witness ==
    /\ pc = "loop"
    /\ Len(action_history) >= 4
    /\ \E i, j, k \in 1..Len(action_history) :
            /\ action_history[i] = "invalid"
            /\ action_history[j] = "answer"
            /\ action_history[k] = "click"
            /\ error_descriptions[k] = "reflection"
    /\ Len(error_descriptions) = Len(action_history)

\* C21: every change of completed_plan_summary is an append of a newly
\* completed subgoal to its previous value (or its first assignment) by the
\* planning chain, or a whole replacement by the path summarizer; no other
\* operation changes it
C21_SummaryAppendedOrReplaced ==
    /\ [][pc \notin {"plan", "reflect"}
            => completed_plan_summary' = completed_plan_summary]_vars
    /\ [][(pc = "plan" /\ completed_plan_summary' # completed_plan_summary) =>
            /\ "planner" \in invoked'
            /\ \/ completed_plan_summary' = Append(completed_plan_summary, "subgoal")
               \/ /\ completed_plan_summary \in NoSubgoalSummaries
                  /\ completed_plan_summary' = <<"subgoal">>]_vars
    /\ [][(pc = "reflect" /\ completed_plan_summary' # completed_plan_summary) =>
            /\ "path_summarizer" \in invoked'
            /\ Len(completed_plan_summary') = 1
            /\ completed_plan_summary'[1] # "subgoal"]_vars

\* the planning chain has appended a subgoal to a summary written by the
\* path summarizer
C21_Witness ==
    /\ pc = "check"
    /\ "planner" \in invoked
    /\ completed_plan_summary = <<"summary", "subgoal">>

\* the screenshot service has returned no image in this step: for the first
\* screenshot or for a post-action screenshot
ScreenshotFailed ==
    \/ pc = "loop" /\ step = 0 /\ step < max_step /\ local_image_dir' = NoImage
    \/ pc = "post_shot" /\ local_image_dir2' = NoImage

\* C22: when the screenshot service returns no image (at step 0 or for a
\* post-action screenshot) the run writes task_results.json with step_limit
\* 1.0 and a reason that identifies the screenshot failure (one that differs
\* from the report of a used-up budget), sends the device home and ends
\* without a further step
C22_ScreenshotFailureIsReported ==
    /\ [][ScreenshotFailed =>
            /\ task_results'.exists
            /\ task_results'.step_limit = 1
            /\ task_results'.test_status_report
                    \notin {"", "Reached maximum execution limit"}
            /\ home_calls' = home_calls + 1
            /\ pc' = "returned"
            /\ step' = step]_vars
    /\ [][pc = "returned" => pc' = "returned"]_vars

\* C23: a reflector response with a missing Outcome section or without the
\* letters S, B and C is absorbed as an error of the step: the reflection
\* chain does not raise, a record is appended to the execution history and
\* the loop goes on with the next step (so every reflection, whatever the
\* response, records and proceeds)
C23_ReflectorErrorIsAbsorbed ==
    [][pc = "reflect" =>
        /\ pc' = "loop"
        /\ step' = step + 1
        /\ Len(action_history') = Len(action_history) + 1
        /\ Len(action_outcomes') = Len(action_outcomes) + 1]_vars

\* the Finished exit has run the task judge and its model call has failed or
\* its response names no status
JudgeFailedAtExit ==
    /\ pc = "check"
    /\ pc' = "after_loop"
    /\ enable_task_judge
    /\ judge_output'.error \/ judge_output'.status = ""

\* C24: when the task judge is enabled and its model call fails or its
\* response cannot be parsed, the Finished exit still writes the results
\* (Completed, step_limit 0) and the infopool, and writes no judge status and
\* no judge reason
C24_JudgeFailureLeavesNoJudgeFields ==
    [][JudgeFailedAtExit =>
        /\ task_results'.exists
        /\ task_results'.task_status = "Completed"
        /\ task_results'.step_limit = 0
        /\ Len(infopool_data'.plans) = Len(infopool_data.plans) + 1
        /\ task_results'.task_judger = ""
        /\ task_results'.judger_reason = << >>]_vars

\* C30: the four per-step arrays of the infopool (plans, completed_subgoals,
\* completed_subgoals_summary, progress) have the same length after any
\* number of infopool updates
C30_InfopoolArraysParallel ==
    /\ Len(infopool_data.completed_subgoals) = Len(infopool_data.plans)
    /\ Len(infopool_data.completed_subgoals_summary) = Len(infopool_data.plans)
    /\ Len(infopool_data.progress) = Len(infopool_data.plans)

\* C25: the loop performs at most max_step iterations and every run in which
\* the model calls and device calls return ends, by a finished plan, by a
\* failed screenshot or by the exhausted budget, with the return of run
C25_RunTerminates ==
    /\ [](step <= max_step)
    /\ <>(pc = "returned")

\* a bucket in which no two entries have the same (type, title, content)
DuplicateFree(bucket) ==
    \A i, j \in DOMAIN bucket : i # j => TrickKey(bucket[i]) # TrickKey(bucket[j])

\* C26: after any sequence of trick-persisting calls that starts from an
\* empty or duplicate-free tricks file, no app bucket of the file holds two
\* entries with identical (type, title, content)
C26_NoDuplicateTricks ==
    \A app \in Apps : DuplicateFree(tricks_file[app])

\* both runs have persisted, for one app, the same list of two tricks of one
\* key, and the bucket holds one entry
C26_Witness ==
    \E app \in Apps :
        /\ \A r \in Runs : persist[r].pc = "done" /\ persist[r].app = app
        /\ Len(persist[1].tricks) = 2
        /\ TrickKey(persist[1].tricks[1]) = TrickKey(persist[1].tricks[2])
        /\ persist[2].tricks = persist[1].tricks
        /\ Len(tricks_file[app]) = 1

\* C27: when the runs that share one tricks file have all persisted their
\* tricks, the file holds the tricks of every run: no update is lost
C27_NoLostUpdate ==
    (\A r \in Runs : persist[r].pc = "done") =>
        \A r \in Runs : \A i \in DOMAIN persist[r].tricks :
            TrickKey(persist[r].tricks[i]) \in Seen(tricks_file[persist[r].app])

\* the elements of a sequence
Range(q) ==
    {q[i] : i \in DOMAIN q}

\* the subprocess of job j is started in this step
Launched(j) ==
    procs[j] = "none" /\ procs'[j] = "running"

\* worker w leaves the job whose pre-flight check failed
PreflightFailureDone(w) ==
    /\ worker[w].pc = "finally"
    /\ ~worker[w].connected
    /\ worker'[w].pc = "get"

\* C28: the subprocess of a job is launched only by a worker that holds a
\* device acquired for the job and for which ensure_connected returned true;
\* when the check fails the worker marks the job failed, starts no
\* subprocess and returns the device to the pool, and the job has status
\* failed when the worker leaves it
C28_LaunchOnlyAfterPreflight ==
    /\ [][\A j \in JobIds : Launched(j) =>
            \E w \in Workers :
                /\ worker[w].pc = "launch"
                /\ worker[w].job = j
                /\ worker[w].connected
                /\ worker[w].device \in all_devices \ Range(idle_devices)]_vars
    /\ [][\A w \in Workers : (worker[w].pc = "get" /\ worker'[w].pc # "get") =>
            /\ worker'[w].device = Head(idle_devices)
            /\ worker'[w].pc = IF worker'[w].connected THEN "start" ELSE "except"]_vars
    /\ [][\A w \in Workers : (worker[w].pc = "except" /\ worker'[w].pc # "except") =>
            /\ job_store'[worker[w].job].status = "failed"
            /\ worker'[w].pc = "finally"]_vars
    /\ [][\A w \in Workers : PreflightFailureDone(w) =>
            /\ procs[worker[w].job] = "none"
            /\ worker[w].device \in Range(idle_devices')
            /\ job_store[worker[w].job].status = "failed"]_vars

\* a POST /stop of job j is under way or has marked the job
StopSeen(j) ==
    \/ job_store[j].status = "stopped"
    \/ \E s \in Stoppers : stopReq[s].pc = "mark" /\ stopReq[s].job = j

\* the status response of job j reports a failure
ReportsFailure(j) ==
    api_status(j).status = "failed" /\ api_status(j).error # ""

\* C29: when the subprocess of a job has exited with a nonzero code and the
\* job is not stopped, run_job keeps a non-empty error, writes status failed
\* with that error, and the status response reports both from then on
C29_FailedSubprocessIsReported ==
    /\ [][\A w \in Workers :
            (worker[w].pc = "poll" /\ worker'[w].pc = "read_status"
                /\ procs[worker[w].job] = "exit1")
            => worker'[w].error # ""]_vars
    /\ [][\A w \in Workers :
            (worker[w].pc = "finalize" /\ worker'[w].pc = "finally"
                /\ worker[w].error # "" /\ ~StopSeen(worker[w].job))
            => ReportsFailure(worker[w].job)']_vars
    /\ [][\A j \in DOMAIN job_store :
            (ReportsFailure(j) /\ ~StopSeen(j)) => ReportsFailure(j)']_vars

\* job 1 is reported failed with the error of its subprocess, the subprocess
\* was reaped and no POST /stop is under way
C29_Witness ==
    /\ 1 \in DOMAIN job_store
    /\ ReportsFailure(1)
    /\ api_status(1).error = "runner failed"
    /\ procs[1] = "reaped"
    /\ \A s \in Stoppers : stopReq[s].pc = "idle"
    /\ \A w \in Workers : worker[w].job # 1

\* the run returns in this step with step_limit 1.0 although iterations of
\* the budget are left
EndsEarlyWithStepLimitOne ==
    /\ pc # "returned"
    /\ pc' = "returned"
    /\ step < max_step
    /\ task_results'.step_limit = 1

\* C35: a run ends with step_limit 1 before max_step iterations only when
\* the screenshot service has returned no image; an invalid executor
\* response does not end the run, and the iteration after it has a
\* pre-action image
C35_EarlyEndOnlyOnScreenshotFailure ==
    /\ [][EndsEarlyWithStepLimitOne => ScreenshotFailed]_vars
    /\ [][(ExecutionRan /\ InvalidResponse(execution_result')) => pc' = "loop"]_vars
    /\ [][(pc = "loop" /\ step < max_step /\ last_action = "invalid")
            => (local_image_dir' # NoImage /\ pc' # "returned")]_vars

\* C36: each iteration that reaches the execution chain appends exactly one
\* record to the execution history, whatever the action (answer and invalid
\* included): the execution chain appends it when the step ends there, the
\* reflection chain otherwise, so between iterations there are no more
\* recorded outcomes than steps
C36_OneRecordPerExecutedStep ==
    /\ [](pc = "loop" => Len(action_outcomes) <= step)
    /\ [][ExecutionRan =>
            Len(action_outcomes') =
                Len(action_outcomes) + (IF pc' = "loop" THEN 1 ELSE 0)]_vars
    /\ [][ReflectionRecorded =>
            Len(action_outcomes') = Len(action_outcomes) + 1]_vars
    /\ [][(pc \notin {"exec", "reflect"}) =>
            action_outcomes' = action_outcomes]_vars

\* the iteration that starts in this step comes to the skip decision
SkipDecided ==
    pc = "loop" /\ pc' = "plan"

NoCommandTwice ==
    \A i, j \in DOMAIN script_data : i # j => script_data[i] # script_data[j]

\* C37: the subgoals list of the script artifact holds exactly one record per
\* device command dispatched during the run: no command is recorded twice,
\* also not the last command of a run that ends because its step budget is
\* used up; the command a step sent is recorded when the step's reflection is
\* recorded; and nothing is recorded on the Finished iteration
C37_OneRecordPerCommand ==
    /\ [] NoCommandTwice
    /\ [][(ReflectionRecorded /\ execution_result.command_str # NoCommand)
            => script_data' = Append(script_data, execution_result.command_str)]_vars
    /\ [][(pc = "check") => script_data' = script_data]_vars

\* worker w leaves its finally clause in this step
FinishesJob(w) ==
    worker[w].pc = "finally" /\ worker'[w].pc # "finally"

\* C40: when a worker finishes a job, the active-job entry of the job's user
\* is removed if it still names the finished job; an entry that names another
\* (newer) job of that user and the entries of all other users are left as
\* they are, and no entry is added
C40_FinishRemovesOnlyOwnEntry ==
    [][\A w \in Workers :
        FinishesJob(w) =>
            LET j == worker[w].job
                u == runReq[j].user
            IN
            /\ DOMAIN USER_RUNNING_JOBS' \subseteq DOMAIN USER_RUNNING_JOBS
            /\ (u \in DOMAIN USER_RUNNING_JOBS /\ USER_RUNNING_JOBS[u] = j)
                    => u \notin DOMAIN USER_RUNNING_JOBS'
            /\ \A k \in DOMAIN USER_RUNNING_JOBS :
                    (k # u \/ USER_RUNNING_JOBS[k] # j)
                        => /\ k \in DOMAIN USER_RUNNING_JOBS'
                           /\ USER_RUNNING_JOBS'[k] = USER_RUNNING_JOBS[k]]_vars

\* a worker is in the finally clause of a finished job while the entry of the
\* job's user already names a newer job
C40_Witness ==
    \E w \in Workers :
        /\ worker[w].pc = "finally"
        /\ LET j == worker[w].job
               u == runReq[j].user
           IN /\ u \in DOMAIN USER_RUNNING_JOBS
              /\ USER_RUNNING_JOBS[u] > j

\* job j was accepted: POST /run created its record and answered 200
Accepted(j) ==
    j \in DOMAIN job_store /\ runReq[j].pc = "done" /\ runReq[j].code = 200

None ==
    << >>

\* the server and the orchestrator at rest, while a pure function is called
AtRest ==
    /\ JobInit
    /\ Cardinality(all_devices) = 1
    /\ LoopInit
    /\ enable_task_judge
    /\ ~enable_tree_stagnation_check
    /\ max_step = MaxStep
    /\ perception_mode = "vllm"
    /\ TricksIdle

\* the values int(a / b * c) can take for a, c >= 0 and b > 0.  a / b is a
\* double and so is its product with c: when the exact value is a whole
\* number the product can fall just short of it (290 / 1000 * 100 is
\* 28.999999999999996) and int() then gives one less; an exact value that is
\* not whole is further from the next whole numbers than the rounding error
TruncatedScale(a, b, c) ==
    LET exact == (a * c) \div b IN
    IF (a * c) % b = 0 /\ exact > 0 THEN {exact, exact - 1} ELSE {exact}

\* a conversion to relative coordinates on a scale of 100 instead of 1000
ConvertToRelativePerHundred(coordinate, screen_width, screen_height) ==
    IF Len(coordinate) < 2 THEN {coordinate}
    ELSE {<<x, y>> : x \in TruncatedScale(coordinate[1], screen_width, 100),
                     y \in TruncatedScale(coordinate[2], screen_height, 100)}

\* convert_to_relative: x = int(coordinate[0] / screen_width * 1000), the same
\* for y with the height; a coordinate with fewer than two parts is returned
\* as it is.  The set of the results the double arithmetic can give
convert_to_relative(coordinate, screen_width, screen_height) ==
    IF Len(coordinate) < 2 THEN {coordinate}
    ELSE {<<x, y>> : x \in TruncatedScale(coordinate[1], screen_width, 1000),
                     y \in TruncatedScale(coordinate[2], screen_height, 1000)}

\* convert_coordinate: x = int(coordinate[0] / 1000 * screen_width), the same
\* for y with the height
convert_coordinate(coordinate, screen_width, screen_height) ==
    IF Len(coordinate) < 2 THEN {coordinate}
    ELSE {<<x, y>> : x \in TruncatedScale(coordinate[1], 1000, screen_width),
                     y \in TruncatedScale(coordinate[2], 1000, screen_height)}

\* the pixel points of a screen the conversions are called with: every x
\* with the first and the last y, every y with the first x, and a coordinate
\* that lacks its second part
PixelPoints(screen) ==
    {<<x, y>> : x \in 0..(screen[1] - 1), y \in {0, screen[2] - 1}}
        \cup {<<0, y>> : y \in 0..(screen[2] - 1)}
        \cup {<<3>>}

CoordInit ==
    /\ AtRest
    /\ swipe = NotCalled
    /\ codec = NotCalled
    /\ marking = NotCalled
    /\ \E screen \in {<<8, 16>>, <<720, 1000>>, <<1080, 2400>>} :
           \E p \in PixelPoints(screen) :
               coord = [called |-> TRUE, screen |-> screen, pixel |-> p,
                        relative |-> None, absolute |-> None]

\* relative = convert_to_relative(pixel, W, H)
ToRelative ==
    /\ coord.called
    /\ coord.relative = None
    /\ \E r \in convert_to_relative(coord.pixel, coord.screen[1], coord.screen[2]) :
            coord' = [coord EXCEPT !.relative = r]
    /\ UNCHANGED <<swipe, codec, marking>>

\* absolute = convert_coordinate(relative, W, H)
ToAbsolute ==
    /\ coord.called
    /\ coord.relative # None
    /\ coord.absolute = None
    /\ \E a \in convert_coordinate(coord.relative, coord.screen[1], coord.screen[2]) :
            coord' = [coord EXCEPT !.absolute = a]
    /\ UNCHANGED <<swipe, codec, marking>>

CoordNext ==
    /\ \/ ToRelative
       \/ ToAbsolute
    /\ UNCHANGED <<jobVars, loopVars, trickVars>>

CoordSpec ==
    CoordInit /\ [][CoordNext]_vars

\* the round trip of a pixel point is done
RoundTripDone ==
    coord.called /\ Len(coord.pixel) = 2 /\ coord.absolute # None

\* how far the round trip moved the point on axis i
Moved(i) ==
    coord.pixel[i] - coord.absolute[i]

\* C32 as stated: for every pixel point p of a W x H screen,
\* to_absolute(to_relative(p, W, H), W, H) differs from p by at most 1 on each
\* axis
C32_RoundTripWithinOne ==
    RoundTripDone => \A i \in 1..2 : Moved(i) \in {-1, 0, 1}

\* C32: the round trip of a pixel point never moves it to a larger
\* coordinate, and moves it down by at most (side \div 1000) + 1 pixels on each
\* axis, where side is the screen's width or height: by at most 1 on a side
\* shorter than 1000 pixels, by up to 3 on a side of 2400 pixels
C32_RoundTripWithinGrid ==
    RoundTripDone =>
        \A i \in 1..2 :
            /\ Moved(i) >= 0
            /\ Moved(i) <= (coord.screen[i] \div 1000) + 1

\* on the 1080 x 2400 screen the point (14, 2399) comes back as (12, 2397)
C32_Witness ==
    /\ RoundTripDone
    /\ coord.screen = <<1080, 2400>>
    /\ coord.pixel = <<14, 2399>>
    /\ coord.relative = <<12, 999>>
    /\ coord.absolute = <<12, 2397>>

(***************************************************************************)
(* ActionService._compute_swipe_points_from_target                         *)
(***************************************************************************)
Max(a, b) ==
    IF a >= b THEN a ELSE b

Min(a, b) ==
    IF a <= b THEN a ELSE b

DirectionNorm(direction) ==
    CASE direction = "Down " -> "down"
      [] direction = "LEFT" -> "left"
      [] OTHER -> direction

\* the distance of a swipe action in tenths; NoDistance is a value float()
\* does not take
NoDistance ==
    -1

\* dist = float(distance), 0.6 when that fails, then clamped to 0.1 .. 0.9
ClampDistance(distance) ==
    LET dist == IF distance = NoDistance THEN 6 ELSE distance
    IN Max(1, Min(9, dist))

\* _resolve_som_bounds: (left, top, right, bottom) of the value's bounds
\* [[left, top], [right, bottom]], None for a box without width or height
ResolveSomBounds(value) ==
    IF value = None THEN None
    ELSE IF value[2][1] <= value[1][1] \/ value[2][2] <= value[1][2] THEN None
    ELSE <<value[1][1], value[1][2], value[2][1], value[2][2]>>

\* the swipe inside the box of a mark, for a swipe length of len pixels
\* before its lower limit of 50: int(w * 0.1), int(0.8 * usable) and
\* int(0.2 * usable) truncate exactly (the doubles 0.1, 0.8 and 0.2 lie above
\* the decimal values)
SwipeInBox(b, direction_norm, len_h, len_w) ==
    LET left == b[1]
        top == b[2]
        right == b[3]
        bottom == b[4]
        w == right - left
        h == bottom - top
        margin_x == Max(10, w \div 10)
        margin_y == Max(10, h \div 10)
        usable_w == Max(1, w - 2 * margin_x)
        usable_h == Max(1, h - 2 * margin_y)
        min_px == 50
        x == left + (w \div 2)
        y == top + (h \div 2)
    IN
    CASE direction_norm = "up" ->
            LET start_y == top + margin_y + ((8 * usable_h) \div 10)
                swipe_len == Max(min_px, len_h)
                end_y == Max(top + margin_y, start_y - swipe_len)
            IN <<<<x, start_y>>, <<x, end_y>>>>
      [] direction_norm = "down" ->
            LET start_y == top + margin_y + ((2 * usable_h) \div 10)
                swipe_len == Max(min_px, len_h)
                end_y == Min(bottom - margin_y, start_y + swipe_len)
            IN <<<<x, start_y>>, <<x, end_y>>>>
      [] direction_norm = "left" ->
            LET start_x == left + margin_x + ((8 * usable_w) \div 10)
                swipe_len == Max(min_px, len_w)
                end_x == Max(left + margin_x, start_x - swipe_len)
            IN <<<<start_x, y>>, <<end_x, y>>>>
      [] direction_norm = "right" ->
            LET start_x == left + margin_x + ((2 * usable_w) \div 10)
                swipe_len == Max(min_px, len_w)
                end_x == Min(right - margin_x, start_x + swipe_len)
            IN <<<<start_x, y>>, <<end_x, y>>>>

\* the usable sides of a box: max(1, side - 2 * max(10, int(side * 0.1)))
UsableSide(side) ==
    Max(1, side - 2 * Max(10, side \div 10))

\* the swipe on the whole screen, used when the target has no bounds;
\* len is int(dist * side * 0.5) before its lower limit of 200
SwipeOnScreen(w, h, direction_norm, len_h, len_w) ==
    LET min_px == 200 IN
    CASE direction_norm = "up" ->
            <<<<w \div 2, (75 * h) \div 100>>,
              <<w \div 2, Max(0, ((75 * h) \div 100) - Max(min_px, len_h))>>>>
      [] direction_norm = "down" ->
            <<<<w \div 2, (25 * h) \div 100>>,
              <<w \div 2, Min(h - 1, ((25 * h) \div 100) + Max(min_px, len_h))>>>>
      [] direction_norm = "left" ->
            <<<<(8 * w) \div 10, h \div 2>>,
              <<Max(0, ((8 * w) \div 10) - Max(min_px, len_w)), h \div 2>>>>
      [] direction_norm = "right" ->
            <<<<(2 * w) \div 10, h \div 2>>,
              <<Min(w - 1, ((2 * w) \div 10) + Max(min_px, len_w)), h \div 2>>>>

\* _compute_swipe_points_from_target: the set of the results the double
\* arithmetic can give (int(dist * usable) can fall one short of a whole
\* product)
compute_swipe_points_from_target(value, direction, distance, screen) ==
    LET direction_norm == DirectionNorm(direction)
        dist == ClampDistance(distance)
        bounds == ResolveSomBounds(value)
        known == direction_norm \in {"up", "down", "left", "right"}
    IN
    IF bounds # None /\ known
    THEN {SwipeInBox(bounds, direction_norm, len_h, len_w) :
            len_h \in TruncatedScale(dist, 10, UsableSide(bounds[4] - bounds[2])),
            len_w \in TruncatedScale(dist, 10, UsableSide(bounds[3] - bounds[1]))}
    ELSE IF screen # None /\ known
    THEN {SwipeOnScreen(screen[1], screen[2], direction_norm, len_h, len_w) :
            len_h \in TruncatedScale(dist, 20, screen[2]),
            len_w \in TruncatedScale(dist, 20, screen[1])}
    ELSE {None}

\* the values of marks in the SoM mapping: bounds [[left, top], [right,
\* bottom]], or none
MarkValues ==
    {<<c, <<c[1] + w, c[2] + h>>>> : c \in {<<0, 0>>, <<40, 300>>}, w \in {0, 5, 15, 20, 21, 30, 100, 600}, h \in {0, 5, 15, 20, 21, 30, 100, 600}}
        \cup {None}

SwipeInit ==
    /\ AtRest
    /\ coord = NotCalled
    /\ codec = NotCalled
    /\ marking = NotCalled
    /\ \E value \in MarkValues, direction \in {"up", "Down ", "LEFT", "right", "diagonal"}, distance \in {NoDistance, 0, 1, 5, 6, 9, 15},
          screen \in {None, <<1080, 2400>>} :
           swipe = [called |-> TRUE, value |-> value, direction |-> direction,
                    distance |-> distance, screen |-> screen, returned |-> FALSE,
                    points |-> None]

ComputeSwipePoints ==
    /\ swipe.called
    /\ ~swipe.returned
    /\ \E points \in compute_swipe_points_from_target(swipe.value,
                        swipe.direction, swipe.distance, swipe.screen) :
            swipe' = [swipe EXCEPT !.returned = TRUE, !.points = points]
    /\ UNCHANGED <<coord, codec, marking>>

SwipeNext ==
    /\ ComputeSwipePoints
    /\ UNCHANGED <<jobVars, loopVars, trickVars>>

SwipeSpec ==
    SwipeInit /\ [][SwipeNext]_vars

\* the call was made for a mark whose bounds are in the mapping, with one of
\* the four directions
SwipeOfMarkDone ==
    /\ swipe.called
    /\ swipe.returned
    /\ ResolveSomBounds(swipe.value) # None
    /\ DirectionNorm(swipe.direction) \in {"up", "down", "left", "right"}

\* point p lies in the box (left, top, right, bottom)
InsideBox(p, b) ==
    /\ b[1] <= p[1] /\ p[1] <= b[3]
    /\ b[2] <= p[2] /\ p[2] <= b[4]

\* the second point is displaced from the first one in the direction
Displaced(points, direction_norm) ==
    LET start == points[1]
        end == points[2]
    IN CASE direction_norm = "up" -> end[2] < start[2] /\ end[1] = start[1]
         [] direction_norm = "down" -> end[2] > start[2] /\ end[1] = start[1]
         [] direction_norm = "left" -> end[1] < start[1] /\ end[2] = start[2]
         [] direction_norm = "right" -> end[1] > start[1] /\ end[2] = start[2]

\* C31: for a swipe anchored to a mark whose bounds are in the SoM mapping,
\* for each of the directions up, down, left and right and every distance,
\* both computed points lie inside the box of the mark and the end point is
\* displaced from the start point in the requested direction
C31_SwipeStaysInBoxAndMoves ==
    SwipeOfMarkDone =>
        /\ swipe.points # None
        /\ InsideBox(swipe.points[1], ResolveSomBounds(swipe.value))
        /\ InsideBox(swipe.points[2], ResolveSomBounds(swipe.value))
        /\ Displaced(swipe.points, DirectionNorm(swipe.direction))

(***************************************************************************)
(* ActionService.parse_action_string and the JSON text of an action        *)
(***************************************************************************)
\* characters that JSON writes with a backslash
Quote ==
    "\""

Backslash ==
    "\\"

Newline ==
    "\n"

\* the character U+0060 of a code fence, which a string of this module
\* cannot hold
Backtick ==
    "U+0060"

\* the key of the member that names the action
ActionKey ==
    <<"a", "c", "t", "i", "o", "n">>

\* a field of an action object: its key, the kind of its value ("str" a
\* text, "num" a number written with its digits, "arr" a list of two
\* one-digit numbers) and the value's characters
Field(key, kind, value) ==
    [key |-> key, kind |-> kind, value |-> value]

\* all texts over the characters of cs that are at most n long
RECURSIVE TextsUpTo(_, _)
TextsUpTo(cs, n) ==
    IF n = 0 THEN {<< >>}
    ELSE LET shorter == TextsUpTo(cs, n - 1)
         IN shorter \cup {Append(t, c) : t \in shorter, c \in cs}

\* the longest text over j, s, o, n that is tried
MaxText ==
    4

\* the texts an answer or a typed input can carry: the texts over j, s, o
\* and n, and texts with a code fence, a quote, a backslash, a line break,
\* spaces around them
Texts ==
    TextsUpTo({"j", "s", "o", "n"}, MaxText)
        \cup {<<Backtick, Backtick, Backtick>>,
              <<"j", "s", Backtick, Backtick, Backtick, "o", "n">>,
              <<"a", Quote, "b">>,
              <<"a", Backslash>>,
              <<"a", Newline, "b">>,
              <<" ", "a", " ">>}

\* the actions of every variant of the executor's action signatures, with
\* the action constants of core.actions and the argument names as texts
ActionObjects ==
    {<<Field(ActionKey, "str", <<"a", "n", "s", "w", "e", "r">>), Field(<<"t", "e", "x", "t">>, "str", t)>> : t \in Texts}
        \cup {<<Field(ActionKey, "str", <<"t", "y", "p", "e">>), Field(<<"t", "e", "x", "t">>, "str", t)>> : t \in Texts}
        \cup {<<Field(ActionKey, "str", <<"c", "l", "i", "c", "k">>), Field(<<"c", "o", "o", "r", "d", "i", "n", "a", "t", "e">>, "arr", c)>> :
                    c \in {<<"1", "2">>, <<"0", "9">>}}
        \cup {<<Field(ActionKey, "str", <<"c", "l", "i", "c", "k">>), Field(<<"c", "o", "o", "r", "d", "i", "n", "a", "t", "e">>, "str", <<"3">>)>>}
        \cup {<<Field(ActionKey, "str", <<"d", "e", "l", "e", "t", "e">>), Field(<<"c", "o", "u", "n", "t">>, "num", n)>> :
                    n \in {<<"1">>, <<"1", "2">>}}
        \cup {<<Field(ActionKey, "str", <<"w", "a", "i", "t">>)>>}
        \cup {<<Field(ActionKey, "str", <<"s", "y", "s", "t", "e", "m", "_", "b", "u", "t", "t", "o", "n">>), Field(<<"b", "u", "t", "t", "o", "n">>, "str", b)>> :
                    b \in {<<"B", "a", "c", "k">>, <<"H", "o", "m", "e">>}}
        \cup {<<Field(ActionKey, "str", <<"s", "w", "i", "p", "e">>), Field(<<"c", "o", "o", "r", "d", "i", "n", "a", "t", "e">>, "arr", <<"1", "2">>),
                Field(<<"c", "o", "o", "r", "d", "i", "n", "a", "t", "e", "2">>, "arr", <<"1", "8">>)>>}
        \cup {<<Field(ActionKey, "str", <<"s", "w", "i", "p", "e">>), Field(<<"t", "a", "r", "g", "e", "t">>, "str", <<"3">>),
                Field(<<"d", "i", "r", "e", "c", "t", "i", "o", "n">>, "str", <<"u", "p">>),
                Field(<<"d", "i", "s", "t", "a", "n", "c", "e">>, "num", <<"0", ".", "6">>)>>}

\* json.dumps of a text: its characters between quotes, a quote, a
\* backslash and a line break written with a backslash
RECURSIVE EscapeText(_)
EscapeText(t) ==
    IF t = << >> THEN << >>
    ELSE LET c == Head(t)
             written == CASE c = Quote -> <<Backslash, Quote>>
                          [] c = Backslash -> <<Backslash, Backslash>>
                          [] c = Newline -> <<Backslash, "n">>
                          [] OTHER -> <<c>>
         IN written \o EscapeText(Tail(t))

\* json.dumps of a value
DumpValue(kind, value) ==
    CASE kind = "str" -> <<Quote>> \o EscapeText(value) \o <<Quote>>
      [] kind = "num" -> value
      [] kind = "arr" -> <<"[", value[1], ",", " ", value[2], "]">>

\* json.dumps of the fields from the i-th on, separated by ", "
RECURSIVE DumpFields(_, _)
DumpFields(action, i) ==
    IF i > Len(action) THEN << >>
    ELSE (IF i > 1 THEN <<",", " ">> ELSE << >>)
            \o <<Quote>> \o action[i].key \o <<Quote, ":", " ">>
            \o DumpValue(action[i].kind, action[i].value)
            \o DumpFields(action, i + 1)

\* json.dumps(action_object)
Dumps(action) ==
    <<"{">> \o DumpFields(action, 1) \o <<"}">>

\* the text inside a code fence, as a model writes it: ```json, the text on
\* a line of its own, ```
Fenced(t) ==
    <<Backtick, Backtick, Backtick, "j", "s", "o", "n", Newline>> \o t
        \o <<Newline, Backtick, Backtick, Backtick>>

\* str.replace(sub, ""): every occurrence of sub is dropped, from the left
RECURSIVE Remove(_, _)
Remove(t, sub) ==
    IF Len(t) < Len(sub) THEN t
    ELSE IF SubSeq(t, 1, Len(sub)) = sub
    THEN Remove(SubSeq(t, Len(sub) + 1, Len(t)), sub)
    ELSE <<Head(t)>> \o Remove(Tail(t), sub)

\* action_str.replace("```", "").replace("json", "").strip()
CleanActionString(action_str) ==
    Strip(Remove(Remove(action_str, <<Backtick, Backtick, Backtick>>), <<"j", "s", "o", "n">>))

\* a parse that failed
ParseFailed ==
    [ok |-> FALSE, value |-> << >>, rest |-> << >>]

\* the text of a JSON string whose opening quote has been read, up to its
\* closing quote
RECURSIVE LoadText(_, _)
LoadText(t, read) ==
    IF t = << >> THEN ParseFailed
    ELSE IF Head(t) = Quote THEN [ok |-> TRUE, value |-> read, rest |-> Tail(t)]
    ELSE IF Head(t) = Newline THEN ParseFailed
    ELSE IF Head(t) = Backslash
    THEN IF Len(t) < 2 THEN ParseFailed
         ELSE IF t[2] \in {Quote, Backslash}
         THEN LoadText(SubSeq(t, 3, Len(t)), Append(read, t[2]))
         ELSE IF t[2] = "n"
         THEN LoadText(SubSeq(t, 3, Len(t)), Append(read, Newline))
         ELSE ParseFailed
    ELSE LoadText(Tail(t), Append(read, Head(t)))

NumberCharacters ==
    {"0", "1", "2", "3", "4", "5", "6", "7", "8", "9", "."}

\* the characters of a number, to the first character that is none
RECURSIVE LoadNumber(_, _)
LoadNumber(t, read) ==
    IF t # << >> /\ Head(t) \in NumberCharacters
    THEN LoadNumber(Tail(t), Append(read, Head(t)))
    ELSE [ok |-> read # << >>, value |-> read, rest |-> t]

\* a JSON value: a string, a list of two one-digit numbers, or a number
LoadValue(t) ==
    IF t = << >> THEN [ok |-> FALSE, kind |-> "", value |-> << >>, rest |-> << >>]
    ELSE IF Head(t) = Quote
    THEN LET r == LoadText(Tail(t), << >>)
         IN [ok |-> r.ok, kind |-> "str", value |-> r.value, rest |-> r.rest]
    ELSE IF Head(t) = "["
    THEN IF /\ Len(t) >= 6
            /\ t[2] \in NumberCharacters \ {"."}
            /\ t[3] = ","
            /\ t[4] = " "
            /\ t[5] \in NumberCharacters \ {"."}
            /\ t[6] = "]"
         THEN [ok |-> TRUE, kind |-> "arr", value |-> <<t[2], t[5]>>,
               rest |-> SubSeq(t, 7, Len(t))]
         ELSE [ok |-> FALSE, kind |-> "", value |-> << >>, rest |-> << >>]
    ELSE LET r == LoadNumber(t, << >>)
         IN [ok |-> r.ok, kind |-> "num", value |-> r.value, rest |-> r.rest]

\* the members of a JSON object from a key on, to the closing brace that
\* ends the text
RECURSIVE LoadFields(_, _)
LoadFields(t, read) ==
    IF t = << >> \/ Head(t) # Quote THEN None
    ELSE LET k == LoadText(Tail(t), << >>) IN
         IF ~k.ok \/ Len(k.rest) < 2 \/ SubSeq(k.rest, 1, 2) # <<":", " ">>
         THEN None
         ELSE LET v == LoadValue(SubSeq(k.rest, 3, Len(k.rest)))
                  fields == Append(read, Field(k.value, v.kind, v.value))
              IN IF ~v.ok THEN None
                 ELSE IF v.rest = <<"}">> THEN fields
                 ELSE IF Len(v.rest) > 2 /\ SubSeq(v.rest, 1, 2) = <<",", " ">>
                 THEN LoadFields(SubSeq(v.rest, 3, Len(v.rest)), fields)
                 ELSE None

\* json.loads of the text of an action object, None when it raises
Loads(t) ==
    IF t = << >> \/ Head(t) # "{" THEN None
    ELSE LoadFields(Tail(t), << >>)

\* parse_action_string
parse_action_string(action_str) ==
    Loads(CleanActionString(action_str))

CodecInit ==
    /\ AtRest
    /\ coord = NotCalled
    /\ swipe = NotCalled
    /\ marking = NotCalled
    /\ \E action \in ActionObjects, wrapping \in {"plain", "fenced"} :
           codec = [called |-> TRUE, action |-> action, wrapping |-> wrapping,
                    action_str |-> None, parsed |-> FALSE,
                    action_object |-> None]

\* the action is written as JSON text
Serialize ==
    /\ codec.called
    /\ codec.action_str = None
    /\ codec' = [codec EXCEPT !.action_str =
                    IF codec.wrapping = "fenced" THEN Fenced(Dumps(codec.action))
                    ELSE Dumps(codec.action)]
    /\ UNCHANGED <<coord, swipe, marking>>

\* action_object = parse_action_string(action_str)
ParseAction ==
    /\ codec.called
    /\ codec.action_str # None
    /\ ~codec.parsed
    /\ codec' = [codec EXCEPT !.parsed = TRUE,
                              !.action_object = parse_action_string(codec.action_str)]
    /\ UNCHANGED <<coord, swipe, marking>>

CodecNext ==
    /\ \/ Serialize
       \/ ParseAction
    /\ UNCHANGED <<jobVars, loopVars, trickVars>>

CodecSpec ==
    CodecInit /\ [][CodecNext]_vars

\* C33: for every action of every variant (answer, click, type, delete,
\* wait, system_button, the two shapes of swipe) and every value of its
\* fields, arbitrary text included, parse_action_string of the action's JSON
\* serialization gives the same action
C33_ParseOfSerializationIsTheAction ==
    (codec.called /\ codec.parsed /\ codec.wrapping = "plain")
        => codec.action_object = codec.action

(***************************************************************************)
(* ScreenPerceptionAccessibilityTree.get_nodes_need_marked                 *)
(***************************************************************************)
\* a node of the accessibility tree: its properties, its bounds [[x1, y1],
\* [x2, y2]], its center, whether it has a text, a resource id or a content
\* description, and its children
Node(properties, bounds, center, semantic, children) ==
    [properties |-> properties, bounds |-> bounds, center |-> center,
     semantic |-> semantic, children |-> children]

\* the center of a box
CenterOf(bounds) ==
    <<(bounds[1][1] + bounds[2][1]) \div 2, (bounds[1][2] + bounds[2][2]) \div 2>>

Box(x1, y1, x2, y2) ==
    <<<<x1, y1>>, <<x2, y2>>>>

\* the nodes below the root of the tree of a 100 x 200 screen: a small and
\* a medium button, a list with a small button in it, a button that covers
\* the screen with and without a text, a second button with the bounds of
\* the small one, a button without a center and a plain text
NodePool ==
    {Node({"clickable"}, Box(10, 10, 20, 20), CenterOf(Box(10, 10, 20, 20)), TRUE, << >>),
     Node({"clickable"}, Box(0, 100, 50, 150), CenterOf(Box(0, 100, 50, 150)), TRUE, << >>),
     Node({"scrollable"}, Box(0, 0, 100, 150), CenterOf(Box(0, 0, 100, 150)), FALSE,
          <<Node({"clickable", "focusable"}, Box(30, 30, 60, 40),
                 CenterOf(Box(30, 30, 60, 40)), FALSE, << >>)>>),
     Node({"clickable"}, Box(0, 0, 100, 200), CenterOf(Box(0, 0, 100, 200)), TRUE, << >>),
     Node({"clickable", "scrollable"}, Box(0, 0, 100, 190),
          CenterOf(Box(0, 0, 100, 190)), FALSE, << >>),
     Node({"clickable"}, Box(10, 10, 20, 20), CenterOf(Box(10, 10, 20, 20)), FALSE, << >>),
     Node({"clickable"}, Box(60, 60, 70, 70), None, TRUE, << >>),
     Node({}, Box(0, 150, 100, 200), CenterOf(Box(0, 150, 100, 200)), TRUE, << >>)}

\* the most children the root of a tree has
MaxChildren ==
    3

\* the lists of at most n different nodes of the pool
RECURSIVE NodeLists(_)
NodeLists(n) ==
    IF n = 0 THEN {<< >>}
    ELSE LET shorter == NodeLists(n - 1)
         IN shorter \cup {Append(l, c) : l \in {s \in shorter : Len(s) = n - 1},
                                         c \in NodePool}

\* at_dict: one root that spans the screen, with its children
AccessibilityTrees ==
    {<<Node({}, Box(0, 0, 100, 200), CenterOf(Box(0, 0, 100, 200)), FALSE, children)>> :
        children \in {l \in NodeLists(MaxChildren) :
                        \A i, j \in DOMAIN l : i # j => l[i] # l[j]}}

\* _area
Area(bounds) ==
    IF bounds = None \/ Len(bounds) # 2 THEN 0
    ELSE Max(0, bounds[2][1] - bounds[1][1]) * Max(0, bounds[2][2] - bounds[1][2])

\* screen_area: over the roots of at_dict, the largest right edge times the
\* largest bottom edge, at least 1
RECURSIVE LargestEdge(_, _)
LargestEdge(at_dict, axis) ==
    IF at_dict = << >> THEN 0
    ELSE LET b == Head(at_dict).bounds
             rest == LargestEdge(Tail(at_dict), axis)
         IN IF b # None /\ Len(b) = 2 THEN Max(rest, b[2][axis]) ELSE rest

ScreenArea(at_dict) ==
    Max(1, LargestEdge(at_dict, 1) * LargestEdge(at_dict, 2))

\* _is_fullscreen_like: _area(bounds) / screen_area >= 0.85
IsFullscreenLike(node, screen_area) ==
    100 * Area(node.bounds) >= 85 * screen_area

\* _should_keep_clickable: a clickable node that covers the screen is kept
\* only with a text, a resource id or a content description
ShouldKeepClickable(node, screen_area) ==
    IF ~IsFullscreenLike(node, screen_area) THEN TRUE ELSE node.semantic

\* walk(node): the candidate the node itself gives, then those of its
\* children in their order
RECURSIVE Walk(_, _)
RECURSIVE WalkAll(_, _)
Walk(node, screen_area) ==
    LET own == IF "clickable" \in node.properties
               THEN IF ShouldKeepClickable(node, screen_area)
                    THEN <<[node_type |-> "clickable", node |-> node]>>
                    ELSE << >>
               ELSE IF "scrollable" \in node.properties
               THEN <<[node_type |-> "scrollable", node |-> node]>>
               ELSE << >>
    IN own \o WalkAll(node.children, screen_area)

WalkAll(nodes, screen_area) ==
    IF nodes = << >> THEN << >>
    ELSE Walk(Head(nodes), screen_area) \o WalkAll(Tail(nodes), screen_area)

\* the loop over the candidates: one without bounds or center is skipped,
\* so is one whose bounds or center were seen for its type; the others get
\* the next index
RECURSIVE MarkCandidates(_, _)
MarkCandidates(candidates, marked) ==
    IF candidates = << >> THEN marked
    ELSE LET c == Head(candidates)
             seen == \E m \in {marked[i] : i \in DOMAIN marked} :
                        /\ m.node_type = c.node_type
                        /\ m.bounds = c.node.bounds \/ m.center = c.node.center
         IN IF c.node.bounds = None \/ c.node.center = None \/ seen
            THEN MarkCandidates(Tail(candidates), marked)
            ELSE MarkCandidates(Tail(candidates),
                    Append(marked, [index |-> Len(marked),
                                    node_type |-> c.node_type,
                                    bounds |-> c.node.bounds,
                                    center |-> c.node.center]))

\* get_nodes_need_marked: the marked nodes with their index, type, bounds
\* and center
get_nodes_need_marked(at_dict) ==
    MarkCandidates(WalkAll(at_dict, ScreenArea(at_dict)), << >>)

MarkingInit ==
    /\ AtRest
    /\ coord = NotCalled
    /\ swipe = NotCalled
    /\ codec = NotCalled
    /\ \E at_dict \in AccessibilityTrees :
           marking = [called |-> TRUE, at_dict |-> at_dict, returned |-> FALSE,
                      nodes_need_marked |-> << >>]

GetNodesNeedMarked ==
    /\ marking.called
    /\ ~marking.returned
    /\ marking' = [marking EXCEPT !.returned = TRUE,
                        !.nodes_need_marked = get_nodes_need_marked(marking.at_dict)]
    /\ UNCHANGED <<coord, swipe, codec>>

MarkingNext ==
    /\ GetNodesNeedMarked
    /\ UNCHANGED <<jobVars, loopVars, trickVars>>

MarkingSpec ==
    MarkingInit /\ [][MarkingNext]_vars

\* C34: the mark indices over the clickable and scrollable candidates
\* ascend with the area of the box: of any two marked nodes the one with the
\* smaller area has the smaller index
C34_SmallerAreaSmallerIndex ==
    (marking.called /\ marking.returned) =>
        \A m, n \in Range(marking.nodes_need_marked) :
            Area(m.bounds) < Area(n.bounds) => m.index < n.index

====
